---------------------------- MODULE Spec2Model ----------------------------
(***************************************************************************)
(* Model of ap-image-backup: the synchronisation engine                    *)
(* (src/compare_engine.py) and the queue flow of the graphical front end   *)
(* (src/ap-image-backup-gui.py).                                           *)
(*                                                                         *)
(* A relative path is the sequence of its segments, so the forward-slash   *)
(* normalised form "A/L/1" is <<"A", "L", "1">>.  A file tree is a         *)
(* function from the paths of its regular files to [size, mtime]; a        *)
(* directory exists when a file lies under it.  An index is a function     *)
(* from relative paths to [target, size, mtime] rows.                      *)
(***************************************************************************)
EXTENDS Integers, Sequences, FiniteSets, TLC

VARIABLES
    nas,            \* remote tree: relative path -> [size, mtime]
    nasDb,          \* serialized remote index: [exists, rows]
    local,          \* local trees: root -> (relative path -> [size, mtime])
    state,          \* target_state.json per root: root -> (target -> epoch)
    now,            \* wall clock, in seconds
    scan,           \* results_map of the last scan_nas_pull_candidates
    last,           \* outcome of the last engine operation
    hist,           \* history: what was pulled, recommended, moved
    ptr,            \* a PullTargetResult under evaluation (table claims)
    gui,            \* BackupCompareWindow fields
    worker,         \* QueueWorker: request and position
    signals,        \* Qt signals emitted by the worker, not yet handled
    writers         \* per machine: an index update between download and upload

vars == <<nas, nasDb, local, state, now, scan, last, hist, ptr, gui, worker, signals,
          writers>>

-----------------------------------------------------------------------------
(* Bounds of the model *)

MaxTime == 2      \* the clock stops here
MaxSteps == 3     \* operations in one behaviour of Spec
MaxRuns == 2      \* operations in one behaviour of SpecPull and SpecPush
MaxStarts == 2    \* workers started in one behaviour of SpecQueue
MaxCount == 2     \* largest count in a PullTargetResult of SpecTable

-----------------------------------------------------------------------------
(* The universe of names *)

R1 == "R1"
R2 == "R2"
Roots == {R1, R2}

Targets == {"A", "B"}
FlatsArea == "_FlatWizard"
TrashArea == "_Trash"
DateTag == "D"

a1 == <<"A", "L", "1">>
a2 == <<"A", "wbpp", "2">>
b1 == <<"B", "1">>
f1 == <<"_FlatWizard", "L", "f">>
r0 == <<"r">>
a3 == <<"A", "3">>
CacheDir == ".ap-image-backup"
c1 == <<CacheDir, "local_index.sqlite">>

BasePaths == {a1, a2, b1, f1}
TargetPaths == {a1, a2, b1}

EmptyDict == [x \in {} |-> 0]

Put(d, k, v) == [x \in (DOMAIN d) \cup {k} |-> IF x = k THEN v ELSE d[x]]

Remove(d, ks) == [x \in (DOMAIN d) \ ks |-> d[x]]

Max(a, b) == IF a >= b THEN a ELSE b

IsPrefix(r, p) == Len(r) < Len(p) /\ SubSeq(p, 1, Len(r)) = r

-----------------------------------------------------------------------------
(* Paths, targets, WIP markers *)

\* _target_from_rel_path: the first segment, "(root)" when it is empty.
_target_from_rel_path(rel_path) ==
    LET first == rel_path[1]
    IN  IF first # "" THEN first ELSE "(root)"

\* target.startswith("_") over the names of the universe.
StartsWithUnderscore(name) == name \in {FlatsArea, TrashArea}

\* pattern.lower() in part.lower(), for the segments of the universe and the
\* markers "WBPP" and "Processing".
SegmentHasWipMarker(part) == part \in {"wbpp", "WBPP", "Processing", "processing"}

_is_wip_rel_path(rel_path) ==
    \E i \in 1..Len(rel_path) : SegmentHasWipMarker(rel_path[i])

-----------------------------------------------------------------------------
(* Trees and index rows *)

File(s, m) == [size |-> s, mtime |-> m]

\* a file whose st_mtime is m seconds and a fraction f (0: none, 1: some)
\* of a second; File(s, m) has a whole number of seconds
RawFile(s, m, f) == [size |-> s, mtime |-> m, frac |-> f]

IntSeconds_RoundUp(stat) ==
    IF "frac" \in DOMAIN stat THEN stat.mtime + stat.frac ELSE stat.mtime

\* int(stat.st_mtime): the fraction is dropped
IntSeconds(stat) == stat.mtime

Row(t, s, m) == [target |-> t, size |-> s, mtime |-> m]

\* smbclient.walk / os.walk: the regular files under a directory.
Walk(tree, root) == {p \in DOMAIN tree : IsPrefix(root, p)}

\* smbclient.path.isdir
IsDir(tree, dir) == Walk(tree, dir) # {}

\* the sub-directories listed directly under a directory
SubDirs(tree, dir) ==
    {p[Len(dir) + 1] : p \in {q \in Walk(tree, dir) : Len(q) > Len(dir) + 1}}

\* rows of a tree walk: rebuild_nas_index (every file but the index itself,
\* which is not part of the tree here) and refresh_local_index.
IndexRowsOf(tree) ==
    [p \in DOMAIN tree |->
        Row(_target_from_rel_path(p), tree[p].size, IntSeconds(tree[p]))]

\* rel_path.startswith(".ap-image-backup/")
InCacheDir(p) == Len(p) > 1 /\ p[1] = CacheDir

\* refresh_local_index: the rows that replace the local index
refresh_local_index(root) ==
    IndexRowsOf([p \in {q \in DOMAIN local[root] : ~InCacheDir(q)} |-> local[root][p]])


-----------------------------------------------------------------------------
(* PullTargetResult and its derived properties *)

PullTargetResult(nf, lf, ma, mi, di, lo, wi, mm, lp) ==
    [nas_files |-> nf, local_files |-> lf, matched_files |-> ma,
     missing_locally_files |-> mi, different_files |-> di,
     local_only_files |-> lo, wip_local_only_files |-> wi,
     missing_latest_mtime |-> mm, last_pull_timestamp |-> lp]

status_NoEmptyRow(r) ==
    IF r.local_files = 0 /\ r.missing_locally_files > 0 THEN "Not pulled"
    ELSE IF r.missing_locally_files > 0 THEN "Partially pulled"
    ELSE IF r.different_files > 0 THEN "Local differs"
    ELSE "Up to date"

\* PullTargetResult.status
status(r) ==
    IF r.nas_files = 0 THEN "Empty on NAS"
    ELSE IF r.local_files = 0 /\ r.missing_locally_files > 0 THEN "Not pulled"
    ELSE IF r.missing_locally_files > 0 THEN "Partially pulled"
    ELSE IF r.different_files > 0 THEN "Local differs"
    ELSE "Up to date"

recommended_action_PushFirst(r) ==
    IF r.local_only_files > 0 THEN "Push to NAS"
    ELSE IF r.missing_locally_files > 0
    THEN IF /\ r.last_pull_timestamp > 0
            /\ r.missing_latest_mtime > 0
            /\ r.missing_latest_mtime <= r.last_pull_timestamp
         THEN "Delete on NAS (_Trash)"
         ELSE "Pull to Local"
    ELSE IF status(r) = "Local differs" THEN "Pull to Local"
    ELSE "No action"

\* PullTargetResult.recommended_action
recommended_action(r) ==
    IF r.missing_locally_files > 0
    THEN IF /\ r.last_pull_timestamp > 0
            /\ r.missing_latest_mtime > 0
            /\ r.missing_latest_mtime <= r.last_pull_timestamp
         THEN "Delete on NAS (_Trash)"
         ELSE "Pull to Local"
    ELSE IF r.local_only_files > 0 THEN "Push to NAS"
    ELSE IF status(r) = "Local differs" THEN "Pull to Local"
    ELSE "No action"

-----------------------------------------------------------------------------
(* Target State Store *)

\* int(pulls.get(target, 0)) over _load_target_state(local_root)
LastPull(root, target) ==
    IF target \in DOMAIN state[root] THEN state[root][target] ELSE 0

\* mark_target_pulled: pulls[target] = int(time.time())
mark_target_pulled(st, root, target, timestamp) ==
    [st EXCEPT ![root] = Put(st[root], target, timestamp)]

-----------------------------------------------------------------------------
(* Remote Index Synchronizer *)

NoDb == [exists |-> FALSE, rows |-> EmptyDict]

\* rebuild_nas_index: walk the share, one row per file, upload.
rebuild_nas_index(tree) == [exists |-> TRUE, rows |-> IndexRowsOf(tree)]

_get_or_build_nas_db_NoFallback(db, tree, force_rebuild, download_fails) ==
    LET db1 == IF force_rebuild THEN rebuild_nas_index(tree) ELSE db
    IN  [db |-> db1, rows |-> db1.rows, rebuilt |-> TRUE]

\* _get_or_build_nas_db: the remote artifact afterwards, the working copy,
\* and whether the copy came from a rebuild.  download_fails is the outcome
\* of the first download of an existing artifact.
_get_or_build_nas_db(db, tree, force_rebuild, download_fails) ==
    LET db1 == IF force_rebuild THEN rebuild_nas_index(tree) ELSE db
        fallback == (~db1.exists) \/ download_fails
        db2 == IF fallback THEN rebuild_nas_index(tree) ELSE db1
    IN  [db |-> db2, rows |-> db2.rows, rebuilt |-> (force_rebuild \/ fallback)]

\* upsert_nas_index_entries on the working copy: INSERT ... ON CONFLICT UPDATE
UpsertRows(rows, tree, paths) ==
    [p \in (DOMAIN rows) \cup paths |->
        IF p \in paths
        THEN Row(_target_from_rel_path(p), tree[p].size, tree[p].mtime)
        ELSE rows[p]]

-----------------------------------------------------------------------------
(* Diff Engine: scan_nas_pull_candidates *)

RECURSIVE MaxMtime(_, _, _)
\* max(target_result.missing_latest_mtime, int(nas_mtime)) over the entries
MaxMtime(rows, paths, acc) ==
    IF paths = {} THEN acc
    ELSE LET p == CHOOSE q \in paths : TRUE
         IN  MaxMtime(rows, paths \ {p}, Max(acc, rows[p].mtime))

ScanTargets(local_rows, nas_rows) ==
    {t \in {nas_rows[p].target : p \in DOMAIN nas_rows}
             \cup {local_rows[p].target : p \in DOMAIN local_rows} :
        ~StartsWithUnderscore(t)}

MatchedPaths(local_rows, nas_rows, target) ==
    {p \in DOMAIN nas_rows :
        /\ nas_rows[p].target = target
        /\ p \in DOMAIN local_rows
        /\ local_rows[p].size = nas_rows[p].size
        /\ local_rows[p].mtime = nas_rows[p].mtime}

MissingPaths(local_rows, nas_rows, target) ==
    {p \in DOMAIN nas_rows : nas_rows[p].target = target /\ p \notin DOMAIN local_rows}

LocalOnlyPaths_OnlyNewTargets(local_rows, nas_rows, target) ==
    {p \in DOMAIN local_rows :
        /\ local_rows[p].target = target
        /\ p \notin DOMAIN nas_rows
        /\ \A q \in DOMAIN nas_rows : nas_rows[q].target # target}

\* second loop: local rows of the target whose path is not in nas_rows
LocalOnlyPaths(local_rows, nas_rows, target) ==
    {p \in DOMAIN local_rows :
        local_rows[p].target = target /\ p \notin DOMAIN nas_rows}

ScanOneTarget(local_rows, nas_rows, last_pull_map, target) ==
    LET nasOf == {p \in DOMAIN nas_rows : nas_rows[p].target = target}
        missing == MissingPaths(local_rows, nas_rows, target)
        matched == MatchedPaths(local_rows, nas_rows, target)
        different == (nasOf \ missing) \ matched
        localOf == {p \in DOMAIN local_rows : local_rows[p].target = target}
        localOnly == LocalOnlyPaths(local_rows, nas_rows, target)
    IN  PullTargetResult(
            Cardinality(nasOf),
            Cardinality(localOf),
            Cardinality(matched),
            Cardinality(missing),
            Cardinality(different),
            Cardinality(localOnly),
            Cardinality({p \in localOnly : _is_wip_rel_path(p)}),
            MaxMtime(nas_rows, missing, 0),
            IF target \in DOMAIN last_pull_map THEN last_pull_map[target] ELSE 0)

scan_nas_pull_candidates(local_rows, nas_rows, last_pull_map) ==
    [t \in ScanTargets(local_rows, nas_rows) |->
        ScanOneTarget(local_rows, nas_rows, last_pull_map, t)]

-----------------------------------------------------------------------------
(* Action Executor: pull *)

\* What can happen to one file of a pull: it goes through, smbclient.stat
\* raises, the read raises after the local file was opened for writing, or
\* os.utime raises after the content was written.
PullOutcomes == {"ok", "stat_fail", "read_fail", "utime_fail"}

SameSizeMtime(x, y) == x.size = y.size /\ x.mtime = y.mtime

PullKind_StatFailSkips(tree, loc, p, o) ==
    IF o = "stat_fail" THEN "skipped"
    ELSE IF p \in DOMAIN loc /\ SameSizeMtime(loc[p], tree[p]) THEN "skipped"
    ELSE IF o = "ok" THEN "copied"
    ELSE "error"

\* the branch one file takes in the loop body of _copy_smb_tree_to_local
PullKind(tree, loc, p, o) ==
    IF o = "stat_fail" THEN "error"
    ELSE IF p \in DOMAIN loc /\ SameSizeMtime(loc[p], tree[p]) THEN "skipped"
    ELSE IF o = "ok" THEN "copied"
    ELSE "error"

PullWritten_NoUtime(tree, p, o, tm) ==
    IF o = "read_fail" THEN File(0, tm) ELSE File(tree[p].size, tm)

\* the local file the loop body leaves behind (only called for files written)
PullWritten(tree, p, o, tm) ==
    IF o = "ok" THEN File(tree[p].size, tree[p].mtime)
    ELSE IF o = "read_fail" THEN File(0, tm)
    ELSE File(tree[p].size, tm)

\* _copy_smb_tree_to_local over the files of one walk
_copy_smb_tree_to_local(tree, loc, files, oc, tm) ==
    LET kind(p) == PullKind(tree, loc, p, oc[p])
        written == {p \in files : kind(p) # "skipped" /\ oc[p] # "stat_fail"}
    IN  [local |-> [p \in (DOMAIN loc) \cup written |->
                        IF p \in written THEN PullWritten(tree, p, oc[p], tm)
                        ELSE loc[p]],
         copied |-> {p \in files : kind(p) = "copied"},
         skipped |-> {p \in files : kind(p) = "skipped"},
         errors |-> {p \in files : kind(p) = "error"}]

FlatFiles_Unasked(tree, target, include_flats) ==
    UNION {Walk(tree, <<FlatsArea, e>>) : e \in SubDirs(tree, <<target>>)}

\* flat_sources of pull_target_from_nas: the files of _FlatWizard/<entry>
\* for every sub-directory <entry> of the target on the share
FlatFiles(tree, target, include_flats) ==
    IF include_flats
    THEN UNION {Walk(tree, <<FlatsArea, e>>) : e \in SubDirs(tree, <<target>>)}
    ELSE {}

PullFiles(tree, target, include_flats) ==
    Walk(tree, <<target>>) \cup FlatFiles(tree, target, include_flats)

\* progress_callback(processed, total_files, path), once at the end of each
\* of n loop iterations that start with `processed` at start
ProgressCalls(start, n, total) ==
    [i \in 1..n |-> [processed |-> start + i, total |-> total]]

FlatsStart_Restart(processed) == 0

\* processed=processed: the flats copy starts from the count the primary
\* copy returned
FlatsStart(processed) == processed

\* the lights_* and flats_* counters of a PullExecutionResult
PartCounts(copied, skipped, errors) == [copied |-> copied, skipped |-> skipped, errors |-> errors]

\* pull_target_from_nas: the primary tree, then the flats trees
pull_target_from_nas(tree, loc, target, include_flats, oc, tm) ==
    LET lights == _copy_smb_tree_to_local(tree, loc, Walk(tree, <<target>>), oc, tm)
        flats == _copy_smb_tree_to_local(tree, lights.local,
                     FlatFiles(tree, target, include_flats), oc, tm)
    IN  [local |-> flats.local,
         total_files |-> Cardinality(PullFiles(tree, target, include_flats)),
         copiedSet |-> lights.copied \cup flats.copied,
         copied_files |-> Cardinality(lights.copied) + Cardinality(flats.copied),
         skipped_files |-> Cardinality(lights.skipped) + Cardinality(flats.skipped),
         error_files |-> Cardinality(lights.errors) + Cardinality(flats.errors),
         errorSet |-> lights.errors \cup flats.errors,
         progress |->
            LET nl == Cardinality(Walk(tree, <<target>>))
                total == Cardinality(PullFiles(tree, target, include_flats))
            IN  ProgressCalls(0, nl, total) \o
                ProgressCalls(FlatsStart(nl),
                    Cardinality(FlatFiles(tree, target, include_flats)), total),
         lights |-> PartCounts(Cardinality(lights.copied), Cardinality(lights.skipped),
                           Cardinality(lights.errors)),
         flats |-> PartCounts(Cardinality(flats.copied), Cardinality(flats.skipped),
                          Cardinality(flats.errors))]

-----------------------------------------------------------------------------
(* Action Executor: push *)

\* What can happen to one file of a push: it goes through, the local stat
\* raises, the remote stat raises (the file is then copied without the
\* comparison), the remote write raises after the file was opened for
\* writing, or smbclient.utime raises after the content was written.
PushOutcomes == {"ok", "stat_fail", "smb_stat_fail", "write_fail", "utime_fail"}

\* the branch one file takes in the loop body of push_target_to_nas
PushKind(tree, loc, p, o) ==
    IF o = "stat_fail" THEN "error"
    ELSE IF o # "smb_stat_fail" /\ p \in DOMAIN tree /\ SameSizeMtime(tree[p], loc[p])
    THEN "skipped"
    ELSE IF o \in {"ok", "smb_stat_fail"} THEN "copied"
    ELSE "error"

PushWritten(loc, p, o, tm) ==
    IF o \in {"ok", "smb_stat_fail"} THEN File(loc[p].size, loc[p].mtime)
    ELSE IF o = "write_fail" THEN File(0, tm)
    ELSE File(loc[p].size, tm)

UpsertedPaths_WithSkipped(copied, skipped) == copied \cup skipped

\* nas_upserts: one entry per file counted as copied
UpsertedPaths(copied, skipped) == copied

\* push_target_to_nas.  Raises when the local target path does not exist
\* (here: no file lies under it and it is no file itself); when it is a
\* file of the root, os.walk yields nothing and the push returns zeros.
push_target_to_nas(tree, loc, db, target, oc, download_fails, tm) ==
    LET files == Walk(loc, <<target>>)
        kind(p) == PushKind(tree, loc, p, oc[p])
        written == {p \in files : kind(p) # "skipped" /\ oc[p] # "stat_fail"}
        copied == {p \in files : kind(p) = "copied"}
        skipped == {p \in files : kind(p) = "skipped"}
        tree2 == [p \in (DOMAIN tree) \cup written |->
                    IF p \in written THEN PushWritten(loc, p, oc[p], tm) ELSE tree[p]]
        upserts == UpsertedPaths(copied, skipped)
        got == _get_or_build_nas_db(db, tree2, FALSE, download_fails)
    IN  IF files = {} /\ <<target>> \notin DOMAIN loc
        THEN [raised |-> TRUE, nas |-> tree, db |-> db, rebuilt |-> FALSE,
              total_files |-> 0, copiedSet |-> {}, copied_files |-> 0,
              skipped_files |-> 0, error_files |-> 0, progress |-> <<>>]
        ELSE [raised |-> FALSE, nas |-> tree2,
              db |-> IF upserts = {} THEN db
                     ELSE [exists |-> TRUE, rows |-> UpsertRows(got.rows, loc, upserts)],
              rebuilt |-> (upserts # {} /\ got.rebuilt),
              total_files |-> Cardinality(files),
              copiedSet |-> copied,
              copied_files |-> Cardinality(copied),
              skipped_files |-> Cardinality(skipped),
              error_files |-> Cardinality({p \in files : kind(p) = "error"}),
              progress |-> ProgressCalls(0, Cardinality(files), Cardinality(files))]

-----------------------------------------------------------------------------
(* Action Executor: delete to trash *)

TrashOf(p) == <<TrashArea, DateTag>> \o p

CheckpointMissing_Never(require_pull_checkpoint, last_pull) == FALSE

\* require_pull_checkpoint and last_pull <= 0
CheckpointMissing(require_pull_checkpoint, last_pull) ==
    require_pull_checkpoint /\ last_pull <= 0

DeleteCandidates_AnyTarget(local_rows, nas_rows, target, require_pull_checkpoint, last_pull) ==
    {p \in DOMAIN nas_rows :
        /\ p \notin DOMAIN local_rows
        /\ (~require_pull_checkpoint \/ nas_rows[p].mtime <= last_pull)}

\* candidates of delete_nas_only_to_trash
DeleteCandidates(local_rows, nas_rows, target, require_pull_checkpoint, last_pull) ==
    {p \in DOMAIN nas_rows :
        /\ nas_rows[p].target = target
        /\ p \notin DOMAIN local_rows
        /\ (~require_pull_checkpoint \/ nas_rows[p].mtime <= last_pull)}

MovedPaths_Overwrite(tree, candidates, move_fails) ==
    {p \in candidates : p \in DOMAIN tree /\ p \notin move_fails}

\* smbclient.rename(src, dst) goes through when src exists, dst does not,
\* and the transport does not fail
MovedPaths(tree, candidates, move_fails) ==
    {p \in candidates : p \in DOMAIN tree /\ TrashOf(p) \notin DOMAIN tree /\ p \notin move_fails}

IndexRemovedPaths_OnlyMoved(candidates, moved) == moved

\* DELETE FROM file_index WHERE rel_path = ?, for every candidate
IndexRemovedPaths(candidates, moved) == candidates

DeleteErrors_CountsNone(candidates, moved) == 0

\* errors += 1 in the except clause of each candidate's move
DeleteErrors(candidates, moved) == Cardinality(candidates \ moved)

\* delete_nas_only_to_trash
delete_nas_only_to_trash(tree, loc, db, last_pull, target, require_pull_checkpoint, download_fails, download_fails2, move_fails) ==
    LET got1 == _get_or_build_nas_db(db, tree, FALSE, download_fails)
        candidates == DeleteCandidates(IndexRowsOf(loc), got1.rows, target,
                                       require_pull_checkpoint, last_pull)
        moved == MovedPaths(tree, candidates, move_fails)
        tree2 == [p \in ((DOMAIN tree) \ moved) \cup {TrashOf(q) : q \in moved} |->
                    IF p \in DOMAIN tree /\ p \notin moved THEN tree[p]
                    ELSE tree[CHOOSE q \in moved : TrashOf(q) = p]]
        got2 == _get_or_build_nas_db(got1.db, tree2, FALSE, download_fails2)
    IN  IF CheckpointMissing(require_pull_checkpoint, last_pull)
        THEN [raised |-> TRUE, nas |-> tree, db |-> db, candidates |-> {},
              rebuilt |-> FALSE, nas_rows |-> EmptyDict, failed |-> {},
              progress |-> <<>>,
              moved |-> {}, total_files |-> 0, copied_files |-> 0, error_files |-> 0]
        ELSE [raised |-> FALSE, nas |-> tree2,
              rebuilt |-> (got1.rebuilt \/ (candidates # {} /\ got2.rebuilt)),
              db |-> IF candidates = {} THEN got1.db
                     ELSE [exists |-> TRUE,
                           rows |-> Remove(got2.rows, IndexRemovedPaths(candidates, moved))],
              candidates |-> candidates,
              nas_rows |-> got1.rows,
              failed |-> candidates \cap move_fails,
              progress |-> ProgressCalls(0, Cardinality(candidates), Cardinality(candidates)),
              moved |-> moved,
              total_files |-> Cardinality(candidates),
              copied_files |-> Cardinality(moved),
              error_files |-> DeleteErrors(candidates, moved)]

-----------------------------------------------------------------------------
(* Outcome of the last engine operation, and history *)

Outcome(op, target, flats, gated, raised, rebuilt, total, copied, skipped, errors, copiedSet, prev) ==
    [n |-> prev.n + 1, op |-> op, target |-> target, flats |-> flats, gated |-> gated,
     raised |-> raised, rebuilt |-> rebuilt, total |-> total, copied |-> copied,
     skipped |-> skipped, errors |-> errors, copiedSet |-> copiedSet,
     prevOp |-> prev.op, prevTarget |-> prev.target, prevFlats |-> prev.flats,
     prevErrors |-> prev.errors, candidates |-> {}, force |-> FALSE,
     download |-> "none", rows |-> EmptyDict, count |-> 0, leaked |-> 0,
     mode |-> "", failed |-> {}, root |-> "",
     lights |-> [copied |-> 0, skipped |-> 0, errors |-> 0],
     flatsCounts |-> [copied |-> 0, skipped |-> 0, errors |-> 0], progress |-> <<>>,
     removedDirs |-> {}, rmdirFails |-> {}, deleted |-> {}, identical |-> {},
     delete_source |-> FALSE, errors_detected |-> FALSE]

NoOutcome ==
    [n |-> 0, op |-> "none", target |-> "", flats |-> FALSE, gated |-> FALSE,
     raised |-> FALSE, rebuilt |-> FALSE, total |-> 0, copied |-> 0, skipped |-> 0,
     errors |-> 0, copiedSet |-> {}, prevOp |-> "none", prevTarget |-> "",
     prevFlats |-> FALSE, prevErrors |-> 0, candidates |-> {}, force |-> FALSE,
     download |-> "none", rows |-> EmptyDict, count |-> 0, leaked |-> 0,
     mode |-> "", failed |-> {}, root |-> "",
     lights |-> [copied |-> 0, skipped |-> 0, errors |-> 0],
     flatsCounts |-> [copied |-> 0, skipped |-> 0, errors |-> 0], progress |-> <<>>,
     removedDirs |-> {}, rmdirFails |-> {}, deleted |-> {}, identical |-> {},
     delete_source |-> FALSE, errors_detected |-> FALSE]

\* an operation of another actor: it ends any run of consecutive operations
Other(prev) == [NoOutcome EXCEPT !.n = prev.n + 1, !.op = "other"]

\* pulled: the files that were in the local tree when a zero-error pull of
\* their target completed.  flagged: the remote-only files of the targets the
\* last operation, a scan, recommended for deletion.  moved: the files the
\* last operation, a checkpoint-gated delete, moved to trash.
NoHist == [pulled |-> {}, flagged |-> {}, moved |-> {}]

NoPtr == [r |-> PullTargetResult(0, 0, 0, 0, 0, 0, 0, 0, 0), done |-> FALSE,
          status |-> "", recommended_action |-> ""]

NoGui == [queue_running |-> FALSE, busy |-> FALSE, local_path_edit |-> R1,
          queue_entries |-> <<>>, all_target_results |-> EmptyDict,
          all_results |-> EmptyDict]

NoWorker == [kind |-> "none", local_path |-> R1, queue_entries |-> <<>>, index |-> 0]

\* a machine that is not updating the remote index.  op: the operation whose
\* update is under way; entries: the paths it upserts or removes; rows: its
\* working copy; stale: another machine uploaded after the copy was fetched;
\* pushed, removed: the entries of the updates this machine has published.
NoWriter ==
    [phase |-> "idle", op |-> "none", entries |-> {}, rows |-> EmptyDict,
     stale |-> FALSE, pushed |-> {}, removed |-> {}]

NoWriters == [m \in Roots |-> NoWriter]

GuiIdle ==
    gui = NoGui /\ worker = NoWorker /\ signals = <<>> /\ ptr = NoPtr /\ writers = NoWriters

guiVars == <<ptr, gui, worker, signals, writers>>

-----------------------------------------------------------------------------
(* Engine operations on the workstation's local root R1, with the other     *)
(* actors of the share: the user editing the local tree, and other machines *)
(* pushing to the share.                                                    *)

Tick ==
    /\ now < MaxTime
    /\ now' = now + 1
    /\ UNCHANGED <<nas, nasDb, local, state, scan, last, hist, guiVars>>

\* Another machine pushes one file, keeping the mtime of its source, and
\* upserts the remote index (push_target_to_nas run elsewhere).
ExternalPush(p, m) ==
    /\ m \in 1..now
    /\ IF p \in DOMAIN nas THEN nas[p] # File(1, m) ELSE TRUE
    /\ LET tree2 == Put(nas, p, File(1, m))
           got == _get_or_build_nas_db(nasDb, tree2, FALSE, FALSE)
       IN  /\ nas' = tree2
           /\ nasDb' = [exists |-> TRUE, rows |-> UpsertRows(got.rows, tree2, {p})]
    /\ last' = Other(last)
    /\ scan' = EmptyDict
    /\ hist' = [hist EXCEPT !.flagged = {}, !.moved = {}]
    /\ UNCHANGED <<local, state, now, guiVars>>

\* The user captures a new file into the local tree.
LocalCapture(p) ==
    /\ p \notin DOMAIN local[R1]
    /\ local' = [local EXCEPT ![R1] = Put(local[R1], p, File(1, now))]
    /\ last' = Other(last)
    /\ scan' = EmptyDict
    /\ hist' = [hist EXCEPT !.flagged = {}, !.moved = {}]
    /\ UNCHANGED <<nas, nasDb, state, now, guiVars>>

\* The user removes a file from the local tree.
LocalRemove(p) ==
    /\ p \in DOMAIN local[R1]
    /\ local' = [local EXCEPT ![R1] = Remove(local[R1], {p})]
    /\ last' = Other(last)
    /\ scan' = EmptyDict
    /\ hist' = [hist EXCEPT !.flagged = {}, !.moved = {}]
    /\ UNCHANGED <<nas, nasDb, state, now, guiVars>>

\* the remote-only files of the targets a scan recommends for deletion
FlaggedForDelete(local_rows, nas_rows, results) ==
    UNION {MissingPaths(local_rows, nas_rows, t) :
            t \in {u \in DOMAIN results :
                    recommended_action(results[u]) = "Delete on NAS (_Trash)"}}

\* scan_nas_pull_candidates(local_root = R1)
Scan(download_fails) ==
    \E got \in {_get_or_build_nas_db(nasDb, nas, FALSE, download_fails)},
       local_rows \in {refresh_local_index(R1)} :
      \E results \in {scan_nas_pull_candidates(local_rows, got.rows, state[R1])} :
        /\ nasDb' = got.db
        /\ scan' = results
        /\ hist' = [hist EXCEPT !.flagged = FlaggedForDelete(local_rows, got.rows, results),
                                !.moved = {}]
        /\ last' = Outcome("scan", "", FALSE, FALSE, FALSE, got.rebuilt, 0, 0, 0, 0, {}, last)
        /\ UNCHANGED <<nas, local, state, now, guiVars>>

\* A pull item of the queue: pull_target_from_nas, then the checkpoint
\* update of on_queue_item_finished when no file errored.
PullItem(target, include_flats, oc) ==
    \E res \in {pull_target_from_nas(nas, local[R1], target, include_flats, oc, now)} :
        /\ local' = [local EXCEPT ![R1] = res.local]
        /\ state' = IF res.error_files = 0
                    THEN mark_target_pulled(state, R1, target, now)
                    ELSE state
        /\ hist' = [pulled |-> IF res.error_files = 0
                               THEN hist.pulled \cup Walk(res.local, <<target>>)
                               ELSE hist.pulled,
                    flagged |-> {}, moved |-> {}]
        /\ last' = [Outcome("pull", target, include_flats, FALSE, FALSE, FALSE,
                            res.total_files, res.copied_files, res.skipped_files,
                            res.error_files, res.copiedSet, last)
                       EXCEPT !.failed = res.errorSet, !.lights = res.lights,
                              !.flatsCounts = res.flats, !.progress = res.progress]
        /\ scan' = EmptyDict
        /\ UNCHANGED <<nas, nasDb, now, guiVars>>

\* push_target_to_nas(local_root = R1)
Push(target, oc, download_fails) ==
    \E res \in {push_target_to_nas(nas, local[R1], nasDb, target, oc, download_fails, now)} :
        /\ nas' = res.nas
        /\ nasDb' = res.db
        /\ last' = [Outcome("push", target, FALSE, FALSE, res.raised, res.rebuilt,
                            res.total_files, res.copied_files, res.skipped_files,
                            res.error_files, res.copiedSet, last)
                       EXCEPT !.progress = res.progress]
        /\ scan' = EmptyDict
        /\ hist' = [hist EXCEPT !.flagged = {}, !.moved = {}]
        /\ UNCHANGED <<local, state, now, guiVars>>

\* delete_nas_only_to_trash(local_root = R1)
Delete(target, require_pull_checkpoint, download_fails, download_fails2, move_fails) ==
    \E res \in {delete_nas_only_to_trash(nas, local[R1], nasDb, LastPull(R1, target),
                   target, require_pull_checkpoint, download_fails, download_fails2,
                   move_fails)} :
        /\ nas' = res.nas
        /\ nasDb' = res.db
        /\ hist' = [hist EXCEPT !.flagged = {},
                                !.moved = IF require_pull_checkpoint THEN res.moved ELSE {}]
        /\ last' = [Outcome("delete", target, FALSE, require_pull_checkpoint, res.raised,
                            res.rebuilt, res.total_files, res.copied_files, 0,
                            res.error_files, res.moved, last)
                       EXCEPT !.candidates = res.candidates, !.rows = res.nas_rows,
                              !.failed = res.failed, !.progress = res.progress]
        /\ scan' = EmptyDict
        /\ UNCHANGED <<local, state, now, guiVars>>

-----------------------------------------------------------------------------
(* Spec: the workstation pulls, scans and deletes while the user removes    *)
(* local files and other machines push to the share.                        *)

Init ==
    /\ nas = (a1 :> File(1, 1))
    /\ nasDb = NoDb
    /\ local = [r \in Roots |-> EmptyDict]
    /\ state = [r \in Roots |-> EmptyDict]
    /\ now = 1
    /\ scan = EmptyDict
    /\ last = NoOutcome
    /\ hist = NoHist
    /\ GuiIdle

SafetyPaths == TargetPaths

Next ==
    \/ Tick
    \/ \E p \in SafetyPaths, m \in 1..MaxTime :
         last.n < MaxSteps /\ ExternalPush(p, m)
    \/ \E p \in SafetyPaths : last.n < MaxSteps /\ LocalCapture(p)
    \/ \E p \in SafetyPaths : last.n < MaxSteps /\ LocalRemove(p)
    \/ \E d \in BOOLEAN : last.n < MaxSteps /\ Scan(d)
    \/ \E t \in Targets :
         \E oc \in [PullFiles(nas, t, FALSE) -> {"ok", "read_fail"}] :
             last.n < MaxSteps /\ PullItem(t, FALSE, oc)
    \/ \E t \in Targets, g \in BOOLEAN, d \in BOOLEAN :
         \E mf \in SUBSET Walk(nas, <<t>>) :
             last.n < MaxSteps /\ Delete(t, g, d, d, mf)

Spec == Init /\ [][Next]_vars

-----------------------------------------------------------------------------
(* SpecTable: status and recommended_action over every PullTargetResult     *)
(* with counts and epochs up to MaxCount.                                   *)

Counts == 0..MaxCount

InitTable ==
    /\ \E nf \in Counts, lf \in Counts, mi \in Counts, di \in Counts, lo \in Counts,
          mm \in Counts, lp \in Counts :
          ptr = [NoPtr EXCEPT !.r = PullTargetResult(nf, lf, 0, mi, di, lo, 0, mm, lp)]
    /\ nas = EmptyDict
    /\ nasDb = NoDb
    /\ local = [r \in Roots |-> EmptyDict]
    /\ state = [r \in Roots |-> EmptyDict]
    /\ now = 1
    /\ scan = EmptyDict
    /\ last = NoOutcome
    /\ hist = NoHist
    /\ gui = NoGui /\ worker = NoWorker /\ signals = <<>> /\ writers = NoWriters

\* read the two properties of the result
Evaluate ==
    /\ ~ptr.done
    /\ ptr' = [ptr EXCEPT !.done = TRUE,
                          !.status = status(ptr.r),
                          !.recommended_action = recommended_action(ptr.r)]
    /\ UNCHANGED <<nas, nasDb, local, state, now, scan, last, hist, gui, worker, signals, writers>>

NextTable == Evaluate

SpecTable == InitTable /\ [][NextTable]_vars

-----------------------------------------------------------------------------
(* SpecPull: pulls of the workstation from any small share into any small   *)
(* local tree, with every per-file failure.                                 *)

PullPaths == {a1, b1, f1}

\* trees over a set of paths: each path absent or one of the given files
TreesOver(paths, files) == UNION {[S -> files] : S \in SUBSET paths}

InitPull ==
    /\ nas \in TreesOver(PullPaths, {File(1, 1)})
    /\ \E loc \in TreesOver(PullPaths, {File(1, 1), File(0, 1)}) :
          /\ \A p \in DOMAIN loc : loc[p].size = 0 => p = a1
          /\ local = [r \in Roots |-> IF r = R1 THEN loc ELSE EmptyDict]
    /\ nasDb = NoDb
    /\ state = [r \in Roots |-> EmptyDict]
    /\ now = 1
    /\ scan = EmptyDict
    /\ last = NoOutcome
    /\ hist = NoHist
    /\ GuiIdle

NextPull ==
    \/ Tick
    \/ \E t \in Targets, fl \in BOOLEAN :
         \E oc \in [PullFiles(nas, t, fl) -> PullOutcomes] :
             last.n < MaxRuns /\ PullItem(t, fl, oc)
    \/ \E p \in PullPaths : last.n < MaxRuns /\ LocalRemove(p)

SpecPull == InitPull /\ [][NextPull]_vars

-----------------------------------------------------------------------------
(* SpecPush: pushes of the workstation from any small local tree to any     *)
(* small share whose index may be absent, accurate or stale.                *)

PushPaths == {a1, a2, b1}

PushNasTrees ==
    {t \in TreesOver(PushPaths, {File(1, 1), File(0, 1)}) :
        \A p \in DOMAIN t : t[p].size = 0 => p = a1}

InitPush ==
    /\ nas \in PushNasTrees
    /\ \E loc \in TreesOver(PushPaths, {File(1, 1)}) :
          local = [r \in Roots |-> IF r = R1 THEN loc ELSE EmptyDict]
    /\ nasDb \in {NoDb, rebuild_nas_index(nas), rebuild_nas_index(EmptyDict),
                 rebuild_nas_index((a1 :> File(0, 1)) @@ (b1 :> File(1, 1)))}
    /\ state = [r \in Roots |-> EmptyDict]
    /\ now = 1
    /\ scan = EmptyDict
    /\ last = NoOutcome
    /\ hist = NoHist
    /\ GuiIdle

NextPush ==
    /\ last.n < MaxRuns - 1
    /\ \E t \in Targets, d \in BOOLEAN :
         \E oc \in [Walk(local[R1], <<t>>) -> PushOutcomes] : Push(t, oc, d)

SpecPush == InitPush /\ [][NextPush]_vars

-----------------------------------------------------------------------------
(* The graphical front end: BackupCompareWindow and its workers.  The       *)
(* worker runs on its own thread; its signals reach the window in the order *)
(* they were emitted, while the user keeps acting on the window.            *)

QueueEntry(target, include_flats, action) ==
    [target |-> target, include_flats |-> include_flats, action |-> action,
     status |-> "Queued", progress_percent |-> 0, error_files |-> 0]

PullExecutionResult(target, total, copied, skipped, errors, action) ==
    [target |-> target, total_files |-> total, copied_files |-> copied,
     skipped_files |-> skipped, error_files |-> errors, action |-> action]

NoResult == PullExecutionResult("", 0, 0, 0, 0, "")

Signal(name, target, next_target, result, results) ==
    [name |-> name, target |-> target, next_target |-> next_target,
     result |-> result, results |-> results]

IsQueued(target) ==
    \E i \in 1..Len(gui.queue_entries) : gui.queue_entries[i].target = target

\* populate_target_table: setEnabled of the three buttons of a row
ButtonEnabled(result, action, is_queued) ==
    IF action = "pull"
    THEN (result.missing_locally_files > 0 \/ result.different_files > 0) /\ ~is_queued
    ELSE IF action = "push"
    THEN result.local_only_files > 0 /\ ~is_queued
    ELSE result.missing_locally_files > 0 /\ ~is_queued

\* the action tag the "Queue Pull", "Queue Push", "Queue Delete" buttons pass
ButtonActions == {"pull", "push", "delete_force"}

set_busy_state_OnlyForQueue(queue_running, busy) == queue_running

\* set_busy_state: whether the buttons end up disabled
set_busy_state(queue_running, busy) == IF queue_running THEN TRUE ELSE busy

\* The user edits the local-path field (it is never disabled).
EditLocalPath(root) ==
    /\ root # gui.local_path_edit
    /\ gui' = [gui EXCEPT !.local_path_edit = root]
    /\ UNCHANGED <<nas, nasDb, local, state, now, scan, last, hist, ptr, worker, signals, writers>>

\* start_target_scan, from the enabled "Refresh File Status" button
StartTargetScan ==
    /\ last.n < MaxStarts
    /\ ~gui.busy
    /\ ~gui.queue_running
    /\ last' = [last EXCEPT !.n = @ + 1]
    /\ gui' = [gui EXCEPT !.busy = set_busy_state(gui.queue_running, TRUE)]
    /\ worker' = [kind |-> "scan", local_path |-> gui.local_path_edit,
                  queue_entries |-> <<>>, index |-> 0]
    /\ UNCHANGED <<nas, nasDb, local, state, now, scan, hist, ptr, signals, writers>>

\* TargetScanWorker.run
ScanWorkerRun(download_fails) ==
    /\ worker.kind = "scan"
    /\ \E got \in {_get_or_build_nas_db(nasDb, nas, FALSE, download_fails)} :
         /\ nasDb' = got.db
         /\ signals' = Append(signals,
               Signal("scan_finished", "", "", NoResult,
                      scan_nas_pull_candidates(refresh_local_index(worker.local_path),
                                               got.rows, state[worker.local_path])))
    /\ worker' = [worker EXCEPT !.kind = "done"]
    /\ UNCHANGED <<nas, local, state, now, scan, last, hist, ptr, gui, writers>>

\* add_target_to_queue, from an enabled button of the target table
AddTargetToQueue(target, action, include_flats) ==
    /\ target \in DOMAIN gui.all_target_results
    /\ ButtonEnabled(gui.all_target_results[target], action, IsQueued(target))
    /\ IF gui.queue_running
       THEN gui' = gui
       ELSE IF IsQueued(target)
       THEN gui' = [gui EXCEPT !.queue_entries =
                       [i \in 1..Len(@) |->
                           IF @[i].target = target
                           THEN [@[i] EXCEPT !.include_flats = include_flats,
                                             !.action = action]
                           ELSE @[i]]]
       ELSE gui' = [gui EXCEPT !.queue_entries =
                       Append(@, QueueEntry(target, include_flats, action))]
    /\ UNCHANGED <<nas, nasDb, local, state, now, scan, last, hist, ptr, worker, signals, writers>>

\* remove_selected_queue_item, from the enabled button
RemoveSelectedQueueItem(row_index) ==
    /\ ~gui.busy
    /\ ~gui.queue_running
    /\ row_index \in 1..Len(gui.queue_entries)
    /\ gui' = [gui EXCEPT !.queue_entries =
                  SubSeq(@, 1, row_index - 1) \o SubSeq(@, row_index + 1, Len(@))]
    /\ UNCHANGED <<nas, nasDb, local, state, now, scan, last, hist, ptr, worker, signals, writers>>

\* start_queue, from the enabled "Start Queue" button, confirmed
StartQueue ==
    /\ last.n < MaxStarts
    /\ last' = [last EXCEPT !.n = @ + 1]
    /\ ~gui.busy
    /\ ~gui.queue_running
    /\ gui.queue_entries # <<>>
    /\ \E entries \in {[i \in 1..Len(gui.queue_entries) |->
                          [gui.queue_entries[i] EXCEPT !.status = "Queued",
                                                       !.progress_percent = 0,
                                                       !.error_files = 0]]} :
         /\ gui' = [gui EXCEPT !.queue_entries = entries,
                               !.queue_running = TRUE,
                               !.busy = set_busy_state(TRUE, TRUE)]
         /\ worker' = [kind |-> "queue", local_path |-> gui.local_path_edit,
                       queue_entries |-> entries, index |-> 1]
    /\ UNCHANGED <<nas, nasDb, local, state, now, scan, hist, ptr, signals, writers>>

\* The branch of QueueWorker.run for one entry: what the action does to the
\* share and to the local root of the request, and the result it returns.
RunQueueAction(entry, root, oc, download_fails, move_fails) ==
    IF entry.action = "pull"
    THEN LET r == pull_target_from_nas(nas, local[root], entry.target,
                                       entry.include_flats, oc, now)
         IN  [raised |-> FALSE, nas |-> nas, db |-> nasDb, local |-> r.local,
              result |-> PullExecutionResult(entry.target, r.total_files, r.copied_files,
                             r.skipped_files, r.error_files, "pull")]
    ELSE IF entry.action = "push"
    THEN LET r == push_target_to_nas(nas, local[root], nasDb, entry.target, oc,
                                     download_fails, now)
         IN  [raised |-> r.raised, nas |-> r.nas, db |-> r.db, local |-> local[root],
              result |-> PullExecutionResult(entry.target, r.total_files, r.copied_files,
                             r.skipped_files, r.error_files, "push")]
    ELSE IF entry.action \in {"delete", "delete_force"}
    THEN LET r == delete_nas_only_to_trash(nas, local[root], nasDb,
                      LastPull(root, entry.target), entry.target,
                      entry.action = "delete", download_fails, download_fails, move_fails)
         IN  [raised |-> r.raised, nas |-> r.nas, db |-> r.db, local |-> local[root],
              result |-> PullExecutionResult(entry.target, r.total_files, r.copied_files,
                             0, r.error_files, "delete")]
    ELSE [raised |-> TRUE, nas |-> nas, db |-> nasDb, local |-> local[root],
          result |-> NoResult]

\* the files whose outcome the environment picks for one entry
ActionFiles(entry, root) ==
    IF entry.action = "pull" THEN PullFiles(nas, entry.target, entry.include_flats)
    ELSE IF entry.action = "push" THEN Walk(local[root], <<entry.target>>)
    ELSE {}

ActionOutcomes(entry) ==
    IF entry.action = "pull" THEN {"ok", "read_fail"} ELSE {"ok", "write_fail"}

NextTarget_Current(queue_entries, index) == queue_entries[index].target

\* next_target of QueueWorker.run: queue_targets[index + 1], "(none)" after
\* the last entry (positions count from 1 here)
NextTarget(queue_entries, index) ==
    IF index + 1 <= Len(queue_entries) THEN queue_entries[index + 1].target ELSE "(none)"

ItemSignals_NoFinally(position, r) ==
    IF r.raised
    THEN <<position, Signal("failed", "", "", NoResult, EmptyDict)>>
    ELSE <<position, Signal("item_finished", r.result.target, "", r.result, EmptyDict)>>

\* the signals of one iteration of QueueWorker.run: queue_position, then
\* item_finished, or, when the action raised, failed (the except clause) and
\* finished (the finally clause)
ItemSignals(position, r) ==
    IF r.raised
    THEN <<position,
           Signal("failed", "", "", NoResult, EmptyDict),
           Signal("finished", "", "", NoResult, EmptyDict)>>
    ELSE <<position, Signal("item_finished", r.result.target, "", r.result, EmptyDict)>>

WorkerAfterItem_SkipsFailed(w, raised) == [w EXCEPT !.index = @ + 1]

\* where QueueWorker.run stands after one iteration: an exception leaves
\* the for loop, otherwise the loop goes on with the next entry
WorkerAfterItem(w, raised) ==
    IF raised THEN [w EXCEPT !.kind = "done"] ELSE [w EXCEPT !.index = @ + 1]

\* QueueWorker.run, one iteration of the loop: announce the position, run
\* the action, emit item_finished; an exception ends the run with failed
\* and finished.
WorkerRunItem ==
    /\ worker.kind = "queue"
    /\ worker.index <= Len(worker.queue_entries)
    /\ LET entry == worker.queue_entries[worker.index]
           root == worker.local_path
           next_target == NextTarget(worker.queue_entries, worker.index)
           position == Signal("queue_position", entry.target, next_target, NoResult,
                              EmptyDict)
       IN  \E oc \in [ActionFiles(entry, root) -> ActionOutcomes(entry)] :
             \E r \in {RunQueueAction(entry, root, oc, FALSE, {})} :
               /\ nas' = r.nas
               /\ nasDb' = r.db
               /\ local' = [local EXCEPT ![root] = r.local]
               /\ signals' = signals \o ItemSignals(position, r)
               /\ worker' = WorkerAfterItem(worker, r.raised)
    /\ UNCHANGED <<state, now, scan, last, hist, ptr, gui, writers>>

\* QueueWorker.run, after the last entry: the finally clause
WorkerFinish ==
    /\ worker.kind = "queue"
    /\ worker.index > Len(worker.queue_entries)
    /\ signals' = Append(signals, Signal("finished", "", "", NoResult, EmptyDict))
    /\ worker' = [worker EXCEPT !.kind = "done"]
    /\ UNCHANGED <<nas, nasDb, local, state, now, scan, last, hist, ptr, gui, writers>>

ShouldMarkPulled_AnyPull(entry_action, error_files) == entry_action = "pull"

\* on_queue_item_finished: entry.action == "pull" and error_files == 0
ShouldMarkPulled(entry_action, error_files) ==
    entry_action = "pull" /\ error_files = 0

\* the index of the first entry for a target, 0 when there is none
FirstEntryFor(entries, target) ==
    IF \E i \in 1..Len(entries) : entries[i].target = target
    THEN CHOOSE i \in 1..Len(entries) :
            /\ entries[i].target = target
            /\ \A j \in 1..(i - 1) : entries[j].target # target
    ELSE 0

\* on_queue_position
OnQueuePosition ==
    /\ signals # <<>> /\ Head(signals).name = "queue_position"
    /\ \E i \in {FirstEntryFor(gui.queue_entries, Head(signals).target)} :
         gui' = IF i = 0 THEN gui
                ELSE [gui EXCEPT !.queue_entries[i].status = "Running"]
    /\ signals' = Tail(signals)
    /\ UNCHANGED <<nas, nasDb, local, state, now, scan, last, hist, ptr, worker, writers>>

\* on_queue_item_finished
OnQueueItemFinished ==
    /\ signals # <<>> /\ Head(signals).name = "item_finished"
    /\ \E i \in {FirstEntryFor(gui.queue_entries, Head(signals).target)},
          result \in {Head(signals).result} :
         IF i = 0
         THEN UNCHANGED <<gui, state>>
         ELSE /\ gui' = [gui EXCEPT
                    !.queue_entries[i].error_files = result.error_files,
                    !.queue_entries[i].progress_percent = 100,
                    !.queue_entries[i].status =
                        IF result.error_files = 0 THEN "Done" ELSE "Done with errors"]
              /\ state' = IF ShouldMarkPulled(gui.queue_entries[i].action,
                                              result.error_files)
                          THEN mark_target_pulled(state, gui.local_path_edit,
                                                  Head(signals).target, now)
                          ELSE state
    /\ signals' = Tail(signals)
    /\ UNCHANGED <<nas, nasDb, local, now, scan, last, hist, ptr, worker, writers>>

\* on_failed
OnFailed ==
    /\ signals # <<>> /\ Head(signals).name = "failed"
    /\ gui' = [gui EXCEPT !.busy = set_busy_state(gui.queue_running, FALSE)]
    /\ signals' = Tail(signals)
    /\ UNCHANGED <<nas, nasDb, local, state, now, scan, last, hist, ptr, worker, writers>>

\* on_queue_finished
OnQueueFinished ==
    /\ signals # <<>> /\ Head(signals).name = "finished"
    /\ gui' = [gui EXCEPT !.queue_running = FALSE,
                          !.busy = set_busy_state(FALSE, FALSE)]
    /\ signals' = Tail(signals)
    /\ UNCHANGED <<nas, nasDb, local, state, now, scan, last, hist, ptr, worker, writers>>

\* on_target_scan_finished
OnTargetScanFinished ==
    /\ signals # <<>> /\ Head(signals).name = "scan_finished"
    /\ gui' = [gui EXCEPT !.all_target_results = Head(signals).results,
                          !.busy = set_busy_state(gui.queue_running, FALSE)]
    /\ signals' = Tail(signals)
    /\ UNCHANGED <<nas, nasDb, local, state, now, scan, last, hist, ptr, worker, writers>>

-----------------------------------------------------------------------------
(* SpecQueue: the window, its scan and queue workers and the user, on a     *)
(* share with two targets and two local roots.                              *)
(* The clock stands still here: every time.time() the run reads is `now`.   *)

InitQueue ==
    /\ nas = (a1 :> File(1, 1)) @@ (b1 :> File(1, 1))
    /\ nasDb = rebuild_nas_index(nas)
    /\ local = [r \in Roots |-> IF r = R1 THEN (a2 :> File(1, 1)) ELSE EmptyDict]
    /\ state = [r \in Roots |-> EmptyDict]
    /\ now = 1
    /\ scan = EmptyDict
    /\ last = NoOutcome
    /\ hist = NoHist
    /\ GuiIdle

NextQueue ==
    \/ \E r \in Roots : EditLocalPath(r)
    \/ StartTargetScan
    \/ ScanWorkerRun(FALSE)
    \/ \E t \in Targets, a \in ButtonActions : AddTargetToQueue(t, a, FALSE)
    \/ \E i \in 1..Cardinality(Targets) : RemoveSelectedQueueItem(i)
    \/ StartQueue
    \/ WorkerRunItem
    \/ WorkerFinish
    \/ OnQueuePosition
    \/ OnQueueItemFinished
    \/ OnFailed
    \/ OnQueueFinished
    \/ OnTargetScanFinished

SpecQueue == InitQueue /\ [][NextQueue]_vars

-----------------------------------------------------------------------------
(* SpecWorker: one QueueWorker constructed with an arbitrary QueueRequest,  *)
(* as start_queue hands it over (queue_running set, the entries copied),    *)
(* and the window handling its signals.  The request may carry any action   *)
(* tag, "verify" standing for the tags QueueWorker.run does not know.       *)

QueueActions == {"pull", "push", "delete", "delete_force", "verify"}

RequestEntries == {QueueEntry(t, f, a) : t \in Targets, f \in BOOLEAN, a \in QueueActions}

\* the queues of a request: not empty, at most one entry per target
QueueRequests ==
    {<<e>> : e \in RequestEntries} \cup
    {q \in {<<e1, e2>> : e1 \in RequestEntries, e2 \in RequestEntries} :
        q[1].target # q[2].target}

InitWorker ==
    /\ nas = (a1 :> File(1, 1)) @@ (b1 :> File(1, 1))
    /\ nasDb = rebuild_nas_index(nas)
    /\ local = [r \in Roots |-> IF r = R1 THEN (a2 :> File(1, 1)) ELSE EmptyDict]
    /\ state \in {[r \in Roots |-> EmptyDict],
                  [r \in Roots |-> IF r = R1 THEN ("A" :> 1) ELSE EmptyDict]}
    /\ now = 1
    /\ scan = EmptyDict
    /\ last = NoOutcome
    /\ hist = NoHist
    /\ ptr = NoPtr
    /\ writers = NoWriters
    /\ signals = <<>>
    /\ \E root \in Roots, entries \in QueueRequests :
         /\ worker = [kind |-> "queue", local_path |-> root,
                      queue_entries |-> entries, index |-> 1]
         /\ gui = [NoGui EXCEPT !.queue_running = TRUE,
                                !.busy = set_busy_state(TRUE, TRUE),
                                !.local_path_edit = root,
                                !.queue_entries = entries]

NextWorker ==
    \/ WorkerRunItem
    \/ WorkerFinish
    \/ OnQueuePosition
    \/ OnQueueItemFinished
    \/ OnFailed
    \/ OnQueueFinished

SpecWorker == InitWorker /\ [][NextWorker]_vars

-----------------------------------------------------------------------------
(* Remote Index Synchronizer with its failures.  Each operator gives the    *)
(* remote artifact afterwards, whether the operation raised, and how many   *)
(* transient local copies of the index it left on disk.                     *)

DownloadOutcomes == {"ok", "open_fail", "read_fail"}

\* _download_nas_db_to_temp creates the local file once the remote one is
\* open, and never removes it
DownloadLeft(outcome) == IF outcome = "read_fail" THEN 1 ELSE 0

\* os.stat / smbclient.stat of every file of a tree, mtimes through int()
StatTree(tree) ==
    [p \in DOMAIN tree |-> File(tree[p].size, IntSeconds(tree[p]))]

\* rebuild_nas_index: local_temp is unlinked after the upload only
rebuild_nas_index_run(tree, db, walk_fails, upload_fails) ==
    IF walk_fails \/ upload_fails
    THEN [raised |-> TRUE, db |-> db, count |-> 0, leaked |-> 1]
    ELSE [raised |-> FALSE, db |-> rebuild_nas_index(tree),
          count |-> Cardinality(DOMAIN tree), leaked |-> 0]

\* _get_or_build_nas_db: on success the caller holds the working copy
_get_or_build_nas_db_run(db, tree, force_rebuild, d1, walk_fails, upload_fails, d2) ==
    LET forced == IF force_rebuild
                  THEN rebuild_nas_index_run(tree, db, walk_fails, upload_fails)
                  ELSE [raised |-> FALSE, db |-> db, count |-> 0, leaked |-> 0]
        first == IF forced.db.exists THEN d1 ELSE "open_fail"
        fallback == rebuild_nas_index_run(tree, forced.db, walk_fails, upload_fails)
        got == _get_or_build_nas_db(db, tree, force_rebuild, first # "ok")
    IN  IF forced.raised
        THEN [raised |-> TRUE, db |-> db, rows |-> EmptyDict, rebuilt |-> FALSE,
              download |-> "none", leaked |-> forced.leaked]
        ELSE IF first = "ok"
        THEN [raised |-> FALSE, db |-> got.db, rows |-> got.rows, rebuilt |-> got.rebuilt,
              download |-> first, leaked |-> 0]
        ELSE IF fallback.raised
        THEN [raised |-> TRUE, db |-> forced.db, rows |-> EmptyDict, rebuilt |-> FALSE,
              download |-> first, leaked |-> DownloadLeft(first) + fallback.leaked]
        ELSE IF d2 # "ok"
        THEN [raised |-> TRUE, db |-> fallback.db, rows |-> EmptyDict, rebuilt |-> TRUE,
              download |-> first, leaked |-> DownloadLeft(first) + DownloadLeft(d2)]
        ELSE [raised |-> FALSE, db |-> got.db, rows |-> got.rows, rebuilt |-> got.rebuilt,
              download |-> first, leaked |-> DownloadLeft(first)]

\* upsert_nas_index_entries: nas_db_temp is unlinked after the upload only
upsert_nas_index_entries_run(db, tree, paths, d1, walk_fails, upload_fails, d2) ==
    LET got == _get_or_build_nas_db_run(db, tree, FALSE, d1, walk_fails, FALSE, d2)
    IN  IF paths = {}
        THEN [raised |-> FALSE, db |-> db, rebuilt |-> FALSE, leaked |-> 0]
        ELSE IF got.raised
        THEN [raised |-> TRUE, db |-> got.db, rebuilt |-> got.rebuilt, leaked |-> got.leaked]
        ELSE IF upload_fails
        THEN [raised |-> TRUE, db |-> got.db, rebuilt |-> got.rebuilt,
              leaked |-> got.leaked + 1]
        ELSE [raised |-> FALSE,
              db |-> [exists |-> TRUE, rows |-> UpsertRows(got.rows, StatTree(tree), paths)],
              rebuilt |-> got.rebuilt, leaked |-> got.leaked]

\* rebuild_nas_index(share)
RebuildNasIndex(walk_fails, upload_fails) ==
    \E res \in {rebuild_nas_index_run(nas, nasDb, walk_fails, upload_fails)} :
        /\ nasDb' = res.db
        /\ last' = [Outcome("rebuild", "", FALSE, FALSE, res.raised, ~res.raised,
                            0, 0, 0, 0, {}, last)
                       EXCEPT !.count = res.count, !.leaked = res.leaked]
        /\ UNCHANGED <<nas, local, state, now, scan, hist, guiVars>>

\* _get_or_build_nas_db as scan_nas_pull_candidates runs it: the working
\* copy is read, then unlinked in the scan's finally
GetOrBuildNasDb(force_rebuild, d1, walk_fails, upload_fails, d2) ==
    \E res \in {_get_or_build_nas_db_run(nasDb, nas, force_rebuild, d1, walk_fails,
                                         upload_fails, d2)} :
        /\ nasDb' = res.db
        /\ last' = [Outcome("get_or_build", "", FALSE, FALSE, res.raised, res.rebuilt,
                            0, 0, 0, 0, {}, last)
                       EXCEPT !.force = force_rebuild, !.download = res.download,
                              !.rows = res.rows, !.leaked = res.leaked]
        /\ UNCHANGED <<nas, local, state, now, scan, hist, guiVars>>

\* upsert_nas_index_entries for files of the share
UpsertEntries(paths, d1, walk_fails, upload_fails, d2) ==
    \E res \in {upsert_nas_index_entries_run(nasDb, nas, paths, d1, walk_fails,
                                             upload_fails, d2)} :
        /\ nasDb' = res.db
        /\ last' = [Outcome("upsert", "", FALSE, FALSE, res.raised, res.rebuilt,
                            0, 0, 0, 0, paths, last)
                       EXCEPT !.leaked = res.leaked]
        /\ UNCHANGED <<nas, local, state, now, scan, hist, guiVars>>

\* refresh_local_index(R1): DELETE FROM file_index, then one row per file
RefreshLocalIndex ==
    \E rows \in {refresh_local_index(R1)} :
        /\ last' = [Outcome("refresh", "", FALSE, FALSE, FALSE, TRUE, 0, 0, 0, 0, {}, last)
                       EXCEPT !.rows = rows, !.count = Cardinality(DOMAIN rows)]
        /\ UNCHANGED <<nas, nasDb, local, state, now, scan, hist, guiVars>>

-----------------------------------------------------------------------------
(* SpecIndex: the index operations on trees that hold a file directly under *)
(* the root, mtimes with fractions of a second, the local cache directory,  *)
(* and a remote index that is absent, stale or current.                     *)

IndexPaths == {a1, r0}
LocalIndexPaths == {a1, r0, c1}
RawFiles == {RawFile(1, 1, 0), RawFile(1, 1, 1)}

InitIndex ==
    /\ nas \in TreesOver(IndexPaths, RawFiles)
    /\ nasDb \in {NoDb, rebuild_nas_index(nas), rebuild_nas_index(b1 :> File(1, 1))}
    /\ \E loc \in TreesOver(LocalIndexPaths, {RawFile(1, 1, 1)}) :
          local = [r \in Roots |-> IF r = R1 THEN loc ELSE EmptyDict]
    /\ state = [r \in Roots |-> EmptyDict]
    /\ now = 1
    /\ scan = EmptyDict
    /\ last = NoOutcome
    /\ hist = NoHist
    /\ GuiIdle

NextIndex ==
    \/ \E w \in BOOLEAN, u \in BOOLEAN : last.n < MaxRuns /\ RebuildNasIndex(w, u)
    \/ \E f \in BOOLEAN, d1 \in DownloadOutcomes, w \in BOOLEAN, d2 \in DownloadOutcomes :
         last.n < MaxRuns /\ GetOrBuildNasDb(f, d1, w, w, d2)
    \/ \E ps \in SUBSET DOMAIN nas, d1 \in DownloadOutcomes, u \in BOOLEAN :
         last.n < MaxRuns /\ UpsertEntries(ps, d1, FALSE, u, "ok")
    \/ last.n < MaxRuns /\ RefreshLocalIndex
    \/ \E p \in LocalIndexPaths : last.n < MaxRuns /\ LocalRemove(p)

SpecIndex == InitIndex /\ [][NextIndex]_vars

-----------------------------------------------------------------------------
(* SpecWalk: the two index rebuilds on trees where the stat of some files   *)
(* raises.  Neither walk has a try around its stat call.                    *)

\* refresh_local_index: full_path.stat() of a walked file outside the cache
\* directory raises, and the exception leaves the function through the
\* finally that closes the connection (no rows are returned)
refresh_local_index_run(root, stat_fails) ==
    IF \E p \in DOMAIN local[root] : ~InCacheDir(p) /\ p \in stat_fails
    THEN [raised |-> TRUE, rows |-> EmptyDict]
    ELSE [raised |-> FALSE, rows |-> refresh_local_index(root)]

\* rebuild_nas_index(share) where smbclient.stat raises for stat_fails
RebuildNasIndexStat(stat_fails) ==
    \E res \in {rebuild_nas_index_run(nas, nasDb, stat_fails \cap DOMAIN nas # {}, FALSE)} :
        /\ nasDb' = res.db
        /\ last' = [Outcome("rebuild", "", FALSE, FALSE, res.raised, ~res.raised,
                            0, 0, 0, 0, {}, last)
                       EXCEPT !.count = res.count, !.leaked = res.leaked,
                              !.failed = stat_fails \cap DOMAIN nas]
        /\ UNCHANGED <<nas, local, state, now, scan, hist, guiVars>>

\* refresh_local_index(R1) where full_path.stat() raises for stat_fails
RefreshLocalIndexStat(stat_fails) ==
    \E res \in {refresh_local_index_run(R1, stat_fails)} :
        /\ last' = [Outcome("refresh", "", FALSE, FALSE, res.raised, ~res.raised,
                            0, 0, 0, 0, {}, last)
                       EXCEPT !.rows = res.rows, !.count = Cardinality(DOMAIN res.rows),
                              !.failed = {p \in stat_fails \cap DOMAIN local[R1] :
                                            ~InCacheDir(p)}]
        /\ UNCHANGED <<nas, nasDb, local, state, now, scan, hist, guiVars>>

InitWalk ==
    /\ nas \in TreesOver(IndexPaths, RawFiles)
    /\ nasDb \in {NoDb, rebuild_nas_index(nas), rebuild_nas_index(b1 :> File(1, 1))}
    /\ \E loc \in TreesOver(LocalIndexPaths, {RawFile(1, 1, 1)}) :
          local = [r \in Roots |-> IF r = R1 THEN loc ELSE EmptyDict]
    /\ state = [r \in Roots |-> EmptyDict]
    /\ now = 1
    /\ scan = EmptyDict
    /\ last = NoOutcome
    /\ hist = NoHist
    /\ GuiIdle

NextWalk ==
    \/ \E sf \in SUBSET IndexPaths : last.n < MaxRuns /\ RebuildNasIndexStat(sf)
    \/ \E sf \in SUBSET LocalIndexPaths : last.n < MaxRuns /\ RefreshLocalIndexStat(sf)

SpecWalk == InitWalk /\ [][NextWalk]_vars

-----------------------------------------------------------------------------
(* SpecProgress: pulls with and without flats, pushes and trash-deletes of  *)
(* the workstation on any small share, the trees standing still during an   *)
(* operation.                                                               *)

ProgressPaths == {a1, b1, f1}

InitProgress ==
    /\ nas \in TreesOver(ProgressPaths, {File(1, 1)})
    /\ nasDb \in {NoDb, rebuild_nas_index(nas)}
    /\ \E loc \in TreesOver({a1, a2}, {File(1, 1)}) :
          local = [r \in Roots |-> IF r = R1 THEN loc ELSE EmptyDict]
    /\ state \in {[r \in Roots |-> EmptyDict],
                  [r \in Roots |-> IF r = R1 THEN ("A" :> 1) ELSE EmptyDict]}
    /\ now = 1
    /\ scan = EmptyDict
    /\ last = NoOutcome
    /\ hist = NoHist
    /\ GuiIdle

NextProgress ==
    \/ \E t \in Targets, fl \in BOOLEAN :
         \E oc \in [PullFiles(nas, t, fl) -> {"ok", "read_fail"}] :
             last.n < MaxRuns /\ PullItem(t, fl, oc)
    \/ \E t \in Targets :
         \E oc \in [Walk(local[R1], <<t>>) -> {"ok", "write_fail"}] :
             last.n < MaxRuns /\ Push(t, oc, FALSE)
    \/ \E t \in Targets, g \in BOOLEAN :
         \E mf \in SUBSET Walk(nas, <<t>>) :
             last.n < MaxRuns /\ Delete(t, g, FALSE, FALSE, mf)

SpecProgress == InitProgress /\ [][NextProgress]_vars

-----------------------------------------------------------------------------
(* Trash-delete: removal of the directories the moves emptied.  The remote  *)
(* directories before a delete are those that hold a file, directly or      *)
(* below; which of them the delete removed is kept in its outcome.          *)

\* the directories of a tree: the proper prefixes of its files' paths
DirsOf(tree) == UNION {{SubSeq(p, 1, k) : k \in 1..(Len(p) - 1)} : p \in DOMAIN tree}

\* dirs_to_check: from the parent of every moved file up to the target root
DirsToCheck(target, moved) == {d \in DirsOf([p \in moved |-> 0]) : d[1] = target}

LocalDirExists_Never(loc, d) == FALSE

\* local_dir.exists()
LocalDirExists(loc, d) == IsDir(loc, d)

\* smbclient.listdir(nas_dir) once the directories in `removed` are gone:
\* the files directly in it and the sub-directories still there
ListDir(tree_before, tree_after, d, removed) ==
    {p \in DOMAIN tree_after : Len(p) = Len(d) + 1 /\ IsPrefix(d, p)} \cup
    {e \in DirsOf(tree_before) \ removed : Len(e) = Len(d) + 1 /\ IsPrefix(d, e)}

\* the loop over sorted(dirs_to_check, key=len, reverse=True), taken one
\* depth at a time from `depth` up to the target root: a child always comes
\* before its parent; rmdir_fails are the directories whose rmdir raises
RECURSIVE RemoveEmptyDirs(_, _, _, _, _, _, _)
RemoveEmptyDirs(tree_before, tree_after, loc, check, rmdir_fails, depth, removed) ==
    IF depth = 0 THEN removed
    ELSE RemoveEmptyDirs(tree_before, tree_after, loc, check, rmdir_fails, depth - 1,
            removed \cup
            {d \in check :
                /\ Len(d) = depth
                /\ ~LocalDirExists(loc, d)
                /\ ListDir(tree_before, tree_after, d, removed) = {}
                /\ d \notin rmdir_fails})

\* the longest directory path of the universe
MaxDepth == Len(a1) - 1

\* delete_nas_only_to_trash(local_root = R1), with the directories removed
DeleteAndPrune(target, require_pull_checkpoint, move_fails, rmdir_fails) ==
    \E res \in {delete_nas_only_to_trash(nas, local[R1], nasDb, LastPull(R1, target),
                   target, require_pull_checkpoint, FALSE, FALSE, move_fails)} :
        /\ nas' = res.nas
        /\ nasDb' = res.db
        /\ hist' = [hist EXCEPT !.flagged = {},
                                !.moved = IF require_pull_checkpoint THEN res.moved ELSE {}]
        /\ last' = [Outcome("delete", target, FALSE, require_pull_checkpoint, res.raised,
                            res.rebuilt, res.total_files, res.copied_files, 0,
                            res.error_files, res.moved, last)
                       EXCEPT !.candidates = res.candidates, !.rows = res.nas_rows,
                              !.failed = res.failed, !.progress = res.progress,
                              !.rmdirFails = rmdir_fails,
                              !.removedDirs =
                                  RemoveEmptyDirs(nas, res.nas, local[R1],
                                      DirsToCheck(target, res.moved), rmdir_fails,
                                      MaxDepth, {})]
        /\ scan' = EmptyDict
        /\ UNCHANGED <<local, state, now, guiVars>>

-----------------------------------------------------------------------------
(* SpecDirs: trash-deletes on shares with a target of nested folders, some  *)
(* of which exist locally; at most one move and one rmdir fail per delete.  *)

DirPaths == {a1, a2, a3, b1}

InitDirs ==
    /\ nas \in TreesOver(DirPaths, {File(1, 1)})
    /\ nasDb \in {NoDb, rebuild_nas_index(nas)}
    /\ \E loc \in TreesOver({a1, a2, a3}, {File(1, 1)}) :
          local = [r \in Roots |-> IF r = R1 THEN loc ELSE EmptyDict]
    /\ state \in {[r \in Roots |-> EmptyDict],
                  [r \in Roots |-> IF r = R1 THEN ("A" :> 1) ELSE EmptyDict]}
    /\ now = 1
    /\ scan = EmptyDict
    /\ last = NoOutcome
    /\ hist = NoHist
    /\ GuiIdle

NextDirs ==
    \E t \in Targets, g \in BOOLEAN :
      \E mf \in {{}} \cup {{p} : p \in Walk(nas, <<t>>)},
         rf \in {{}} \cup {{d} : d \in {e \in DirsOf(nas) : e[1] = t}} :
         last.n < MaxRuns /\ DeleteAndPrune(t, g, mf, rf)

SpecDirs == InitDirs /\ [][NextDirs]_vars

-----------------------------------------------------------------------------
(* Diff Engine: compare_local_to_nas *)

\* CompareMode
CompareModes == {"images", "wip"}

\* _include_file
_include_file(path, mode) ==
    IF mode = "images" THEN ~_is_wip_rel_path(path)
    ELSE IF mode = "wip" THEN _is_wip_rel_path(path)
    ELSE TRUE

\* _iter_local_files: every file under the root that the mode includes
_iter_local_files(loc, mode) == {p \in DOMAIN loc : _include_file(p, mode)}

\* _relative_folder_from_root
_relative_folder_from_root(relative_file) ==
    IF Len(relative_file) <= 1 THEN "(root)" ELSE relative_file[1]

\* _same_file: the reason it returns.  smbclient.stat raises not-found for
\* a path absent from the share; stat_fails are the paths for which it
\* raises anything else.
_same_file(loc, tree, p, stat_fails) ==
    IF p \in stat_fails THEN "error"
    ELSE IF p \notin DOMAIN tree THEN "missing"
    ELSE IF loc[p].size = tree[p].size /\ IntSeconds(loc[p]) = IntSeconds(tree[p])
    THEN "same"
    ELSE "different"

safe_to_delete_IgnoresMissing(r) == r.local_files > 0 /\ r.different_files = 0

\* FolderResult.safe_to_delete
safe_to_delete(r) ==
    r.local_files > 0 /\ r.missing_on_nas_files = 0 /\ r.different_files = 0

\* FolderResult, with the property safe_to_delete evaluated
FolderResult(folder, local_files, backed_up, missing, different) ==
    LET r == [folder |-> folder, local_files |-> local_files,
              backed_up_files |-> backed_up, missing_on_nas_files |-> missing,
              different_files |-> different]
    IN  [folder |-> folder, local_files |-> local_files,
         backed_up_files |-> backed_up, missing_on_nas_files |-> missing,
         different_files |-> different, safe_to_delete |-> safe_to_delete(r)]

\* compare_local_to_nas on an existing root: folder_results.  Each file adds
\* one to local_files of its folder and one to the counter its reason
\* selects: same, missing, or anything else.
compare_local_to_nas(loc, tree, mode, stat_fails) ==
    LET files == _iter_local_files(loc, mode)
        folders == {_relative_folder_from_root(p) : p \in files}
        reason(p) == _same_file(loc, tree, p, stat_fails)
        of(f) == {p \in files : _relative_folder_from_root(p) = f}
    IN  [f \in folders |->
            FolderResult(f, Cardinality(of(f)),
                Cardinality({p \in of(f) : reason(p) = "same"}),
                Cardinality({p \in of(f) : reason(p) = "missing"}),
                Cardinality({p \in of(f) : reason(p) \notin {"same", "missing"}}))]

\* compare_local_to_nas(R1): it reads both sides and changes neither
Compare(mode, stat_fails) ==
    /\ scan' = compare_local_to_nas(local[R1], nas, mode, stat_fails)
    /\ last' = [Outcome("compare", "", FALSE, FALSE, FALSE, FALSE, 0, 0, 0, 0, {}, last)
                   EXCEPT !.mode = mode, !.failed = stat_fails]
    /\ UNCHANGED <<nas, nasDb, local, state, now, hist, guiVars>>

-----------------------------------------------------------------------------
(* SpecCompare: comparisons of any small local tree, with a folder of two   *)
(* image files, a work-in-progress file and a file directly under the root, *)
(* against any small share; at most one remote stat fails per comparison.   *)

ComparePaths == {a1, a3, a2}
CompareLocalPaths == {a1, a3, a2, r0}
CompareNasFiles == {RawFile(1, 1, 1), RawFile(2, 1, 0), RawFile(1, 2, 0)}

InitCompare ==
    /\ nas \in TreesOver(ComparePaths, CompareNasFiles)
    /\ nasDb = NoDb
    /\ \E loc \in TreesOver(CompareLocalPaths, {RawFile(1, 1, 0)}) :
          local = [r \in Roots |-> IF r = R1 THEN loc ELSE EmptyDict]
    /\ state = [r \in Roots |-> EmptyDict]
    /\ now = 1
    /\ scan = EmptyDict
    /\ last = NoOutcome
    /\ hist = NoHist
    /\ GuiIdle

NextCompare ==
    \E mode \in CompareModes :
      \E stat_fails \in {{}} \cup {{p} : p \in _iter_local_files(local[R1], mode)} :
        last.n < MaxRuns /\ Compare(mode, stat_fails)

SpecCompare == InitCompare /\ [][NextCompare]_vars

-----------------------------------------------------------------------------
(* The engine's operations on a local root that may not exist.  The roots   *)
(* that exist are the domain of `local`; a root that does not exist has no  *)
(* target_state.json, so its checkpoints are empty.  Of the cache directory *)
(* <root>/.ap-image-backup only its creation of a missing root is kept.     *)

\* Path(local_root).exists()
RootExists(root) == root \in DOMAIN local

\* cache_dir.mkdir(parents=True, exist_ok=True) of _target_state_path: the
\* local trees afterwards
MakeCacheDir(root) ==
    [r \in DOMAIN local \cup {root} |-> IF r \in DOMAIN local THEN local[r] ELSE EmptyDict]

\* an operation that raised before it did anything
RaisedAt(op, root, target, gated) ==
    /\ last' = [Outcome(op, target, FALSE, gated, TRUE, FALSE, 0, 0, 0, 0, {}, last)
                   EXCEPT !.root = root]
    /\ UNCHANGED <<nas, nasDb, local, state, now, scan, hist, guiVars>>

\* compare_local_to_nas(local_root = root)
CompareAt(root, mode) ==
    IF ~RootExists(root)
    THEN RaisedAt("compare", root, "", FALSE)
    ELSE /\ scan' = compare_local_to_nas(local[root], nas, mode, {})
         /\ last' = [Outcome("compare", "", FALSE, FALSE, FALSE, FALSE, 0, 0, 0, 0, {}, last)
                        EXCEPT !.mode = mode, !.root = root]
         /\ UNCHANGED <<nas, nasDb, local, state, now, hist, guiVars>>

\* scan_nas_pull_candidates(local_root = root)
ScanAt(root) ==
    IF ~RootExists(root)
    THEN RaisedAt("scan", root, "", FALSE)
    ELSE \E got \in {_get_or_build_nas_db(nasDb, nas, FALSE, FALSE)} :
           /\ nasDb' = got.db
           /\ scan' = scan_nas_pull_candidates(refresh_local_index(root), got.rows,
                                               state[root])
           /\ last' = [Outcome("scan", "", FALSE, FALSE, FALSE, got.rebuilt,
                               0, 0, 0, 0, {}, last) EXCEPT !.root = root]
           /\ UNCHANGED <<nas, local, state, now, hist, guiVars>>

\* pull_target_from_nas(local_root = root), every file copied without error
PullAt(root, target) ==
    IF ~RootExists(root)
    THEN RaisedAt("pull", root, target, FALSE)
    ELSE \E res \in {pull_target_from_nas(nas, local[root], target, FALSE,
                          [p \in PullFiles(nas, target, FALSE) |-> "ok"], now)} :
           /\ local' = [local EXCEPT ![root] = res.local]
           /\ last' = [Outcome("pull", target, FALSE, FALSE, FALSE, FALSE,
                               res.total_files, res.copied_files, res.skipped_files,
                               res.error_files, res.copiedSet, last) EXCEPT !.root = root]
           /\ UNCHANGED <<nas, nasDb, state, now, scan, hist, guiVars>>

\* push_target_to_nas(local_root = root): under a root that does not exist
\* the target folder does not exist either
PushAt(root, target) ==
    IF ~RootExists(root)
    THEN RaisedAt("push", root, target, FALSE)
    ELSE \E res \in {push_target_to_nas(nas, local[root], nasDb, target,
                          [p \in Walk(local[root], <<target>>) |-> "ok"], FALSE, now)} :
           /\ nas' = res.nas
           /\ nasDb' = res.db
           /\ last' = [Outcome("push", target, FALSE, FALSE, res.raised, res.rebuilt,
                               res.total_files, res.copied_files, res.skipped_files,
                               res.error_files, res.copiedSet, last) EXCEPT !.root = root]
           /\ UNCHANGED <<local, state, now, scan, hist, guiVars>>

\* delete_nas_only_to_trash(local_root = root): _load_target_state comes
\* first and makes the cache directory, parents included; the checkpoint
\* test, refresh_local_index and the moves follow
DeleteAt(root, target, require_pull_checkpoint) ==
    \E made \in {MakeCacheDir(root)} :
      \E res \in {delete_nas_only_to_trash(nas, made[root], nasDb, LastPull(root, target),
                      target, require_pull_checkpoint, FALSE, FALSE, {})} :
        /\ local' = made
        /\ nas' = res.nas
        /\ nasDb' = res.db
        /\ last' = [Outcome("delete", target, FALSE, require_pull_checkpoint, res.raised,
                            res.rebuilt, res.total_files, res.copied_files, 0,
                            res.error_files, res.moved, last)
                       EXCEPT !.candidates = res.candidates, !.root = root]
        /\ UNCHANGED <<state, now, scan, hist, guiVars>>

-----------------------------------------------------------------------------
(* SpecRoot: every operation of the engine, asked for a local root that     *)
(* exists or for one that does not, on a small share with or without index. *)

RootPaths == {a1, b1}

InitRoot ==
    /\ nas \in TreesOver(RootPaths, {File(1, 1)})
    /\ nasDb \in {NoDb, rebuild_nas_index(nas)}
    /\ local \in {EmptyDict} \cup
                 {[r \in {R1} |-> loc] : loc \in TreesOver({a1, a2}, {File(1, 1)})}
    /\ state \in {[r \in Roots |-> EmptyDict]} \cup
                 {[r \in Roots |-> IF r = R1 /\ RootExists(R1) THEN ("A" :> 1)
                                   ELSE EmptyDict]}
    /\ now = 1
    /\ scan = EmptyDict
    /\ last = NoOutcome
    /\ hist = NoHist
    /\ GuiIdle

NextRoot ==
    \/ \E root \in Roots, mode \in CompareModes : last.n < MaxRuns /\ CompareAt(root, mode)
    \/ \E root \in Roots : last.n < MaxRuns /\ ScanAt(root)
    \/ \E root \in Roots, t \in Targets : last.n < MaxRuns /\ PullAt(root, t)
    \/ \E root \in Roots, t \in Targets : last.n < MaxRuns /\ PushAt(root, t)
    \/ \E root \in Roots, t \in Targets, g \in BOOLEAN :
         last.n < MaxRuns /\ DeleteAt(root, t, g)

SpecRoot == InitRoot /\ [][NextRoot]_vars

-----------------------------------------------------------------------------
(* SpecUnits: the window's four synchronization units (comparison, scan,    *)
(* NAS DB rebuild, queue run), the user clicking the four start buttons at  *)
(* any moment, and the window handling the workers' signals in the order    *)
(* they were emitted.  self.worker is one slot: a start overwrites it.      *)

\* the kinds of worker a start handler puts in self.worker
UnitKinds == {"compare", "scan", "rebuild", "queue"}

\* start_comparison, from the enabled "Run Comparison" button
StartComparison(mode) ==
    /\ last.n < MaxStarts
    /\ ~gui.busy
    /\ ~gui.queue_running
    /\ last' = [last EXCEPT !.n = @ + 1, !.op = "start_comparison", !.mode = mode]
    /\ gui' = [gui EXCEPT !.busy = set_busy_state(gui.queue_running, TRUE)]
    /\ worker' = [kind |-> "compare", local_path |-> gui.local_path_edit,
                  queue_entries |-> <<>>, index |-> 0]
    /\ UNCHANGED <<nas, nasDb, local, state, now, scan, hist, ptr, signals, writers>>

\* start_rebuild_nas_db, from the enabled "Rebuild NAS DB" button, confirmed
StartRebuildNasDb ==
    /\ last.n < MaxStarts
    /\ ~gui.busy
    /\ ~gui.queue_running
    /\ last' = [last EXCEPT !.n = @ + 1, !.op = "start_rebuild_nas_db"]
    /\ gui' = [gui EXCEPT !.busy = set_busy_state(gui.queue_running, TRUE)]
    /\ worker' = [kind |-> "rebuild", local_path |-> gui.local_path_edit,
                  queue_entries |-> <<>>, index |-> 0]
    /\ UNCHANGED <<nas, nasDb, local, state, now, scan, hist, ptr, signals, writers>>

\* A click on one of the four start buttons while set_busy_state has them
\* disabled: a disabled button emits no clicked signal, so no handler runs.
ClickDisabled ==
    /\ last.n < MaxStarts
    /\ gui.busy
    /\ last' = [last EXCEPT !.n = @ + 1, !.op = "click_disabled"]
    /\ UNCHANGED <<nas, nasDb, local, state, now, scan, hist, ptr, gui, worker, signals, writers>>

\* CompareWorker.run: the comparison, then finished
CompareWorkerRun(stat_fails) ==
    /\ worker.kind = "compare"
    /\ signals' = Append(signals,
          Signal("compare_finished", "", "", NoResult,
                 compare_local_to_nas(local[worker.local_path], nas, last.mode,
                                      stat_fails)))
    /\ worker' = [worker EXCEPT !.kind = "done"]
    /\ UNCHANGED <<nas, nasDb, local, state, now, scan, last, hist, ptr, gui, writers>>

\* CompareWorker.run and TargetScanWorker.run when the engine call raises
\* (the share cannot be reached): the except clause emits failed
WorkerRunRaises ==
    /\ worker.kind \in {"compare", "scan"}
    /\ signals' = Append(signals, Signal("failed", "", "", NoResult, EmptyDict))
    /\ worker' = [worker EXCEPT !.kind = "done"]
    /\ UNCHANGED <<nas, nasDb, local, state, now, scan, last, hist, ptr, gui, writers>>

\* RebuildNasDbWorker.run: rebuild_nas_index, then finished, or failed when
\* the walk or the upload raised
RebuildNasDbWorkerRun(walk_fails, upload_fails) ==
    /\ worker.kind = "rebuild"
    /\ \E res \in {rebuild_nas_index_run(nas, nasDb, walk_fails, upload_fails)} :
         /\ nasDb' = res.db
         /\ signals' = Append(signals,
               IF res.raised
               THEN Signal("failed", "", "", NoResult, EmptyDict)
               ELSE Signal("rebuild_finished", "", "", NoResult, EmptyDict))
    /\ worker' = [worker EXCEPT !.kind = "done"]
    /\ UNCHANGED <<nas, local, state, now, scan, last, hist, ptr, gui, writers>>

\* on_finished
OnFinished ==
    /\ signals # <<>> /\ Head(signals).name = "compare_finished"
    /\ gui' = [gui EXCEPT !.all_results = Head(signals).results,
                          !.busy = set_busy_state(gui.queue_running, FALSE)]
    /\ signals' = Tail(signals)
    /\ UNCHANGED <<nas, nasDb, local, state, now, scan, last, hist, ptr, worker, writers>>

\* on_rebuild_nas_db_finished
OnRebuildNasDbFinished ==
    /\ signals # <<>> /\ Head(signals).name = "rebuild_finished"
    /\ gui' = [gui EXCEPT !.busy = set_busy_state(gui.queue_running, FALSE)]
    /\ signals' = Tail(signals)
    /\ UNCHANGED <<nas, nasDb, local, state, now, scan, last, hist, ptr, worker, writers>>

\* the queues the window may hold when the user starts clicking
UnitQueues ==
    {<<>>, <<QueueEntry("A", FALSE, "pull")>>,
     <<QueueEntry("A", FALSE, "pull"), QueueEntry("B", FALSE, "delete_force")>>}

InitUnits ==
    /\ nas = (a1 :> File(1, 1)) @@ (b1 :> File(1, 1))
    /\ nasDb = rebuild_nas_index(nas)
    /\ local = [r \in Roots |-> IF r = R1 THEN (a2 :> File(1, 1)) ELSE EmptyDict]
    /\ state = [r \in Roots |-> EmptyDict]
    /\ now = 1
    /\ scan = EmptyDict
    /\ last = NoOutcome
    /\ hist = NoHist
    /\ ptr = NoPtr
    /\ writers = NoWriters
    /\ worker = NoWorker
    /\ signals = <<>>
    /\ \E entries \in UnitQueues : gui = [NoGui EXCEPT !.queue_entries = entries]

NextUnits ==
    \/ \E mode \in CompareModes : StartComparison(mode)
    \/ StartTargetScan
    \/ StartRebuildNasDb
    \/ StartQueue
    \/ ClickDisabled
    \/ \E sf \in {{}, {a2}} : CompareWorkerRun(sf)
    \/ ScanWorkerRun(FALSE)
    \/ WorkerRunRaises
    \/ \E wf \in BOOLEAN, uf \in BOOLEAN : RebuildNasDbWorkerRun(wf, uf)
    \/ WorkerRunItem
    \/ WorkerFinish
    \/ OnFinished
    \/ OnTargetScanFinished
    \/ OnRebuildNasDbFinished
    \/ OnFailed
    \/ OnQueuePosition
    \/ OnQueueItemFinished
    \/ OnQueueFinished

SpecUnits == InitUnits /\ [][NextUnits]_vars

-----------------------------------------------------------------------------
(* SpecWriters: two machines, each with its own local root, pushing to and  *)
(* deleting from one share.  An update of the remote index is three steps   *)
(* of a machine (the copies or moves, the download of a working copy, the   *)
(* change and upload), and the steps of the two machines interleave freely: *)
(* nothing in the engine locks the index file.  last.n counts the           *)
(* operations started.                                                      *)

\* every other machine's working copy predates the upload machine m makes
AfterUploadBy(m, ws) ==
    [k \in Roots |->
        IF k # m /\ ws[k].phase = "fetched" THEN [ws[k] EXCEPT !.stale = TRUE] ELSE ws[k]]

\* push_target_to_nas on machine m, up to the call of
\* upsert_nas_index_entries: the files are written to the share
WriterPushCopies(m, target) ==
    /\ last.n < MaxRuns
    /\ last' = [last EXCEPT !.n = @ + 1]
    /\ writers[m].phase = "idle"
    /\ Walk(local[m], <<target>>) # {}
    /\ LET files == Walk(local[m], <<target>>)
           copied == {p \in files : PushKind(nas, local[m], p, "ok") = "copied"}
           upserts == UpsertedPaths(copied, files \ copied)
       IN  /\ upserts # {}
           /\ nas' = [p \in (DOMAIN nas) \cup copied |->
                         IF p \in copied THEN PushWritten(local[m], p, "ok", now)
                         ELSE nas[p]]
           /\ writers' = [writers EXCEPT ![m].phase = "copied", ![m].op = "push",
                                         ![m].entries = upserts]
    /\ UNCHANGED <<nasDb, local, state, now, scan, hist, ptr, gui, worker, signals>>

\* delete_nas_only_to_trash without the checkpoint gate on machine m, up to
\* the second _get_or_build_nas_db: the candidates are read from the index
\* and moved to the trash
WriterDeleteMoves(m, target, download_fails) ==
    /\ last.n < MaxRuns
    /\ last' = [last EXCEPT !.n = @ + 1]
    /\ writers[m].phase = "idle"
    /\ \E got \in {_get_or_build_nas_db(nasDb, nas, FALSE, download_fails)} :
         LET candidates == DeleteCandidates(IndexRowsOf(local[m]), got.rows, target,
                                            FALSE, 0)
             moved == MovedPaths(nas, candidates, {})
         IN  /\ candidates # {}
             /\ nasDb' = got.db
             /\ nas' = [p \in ((DOMAIN nas) \ moved) \cup {TrashOf(q) : q \in moved} |->
                           IF p \in DOMAIN nas /\ p \notin moved THEN nas[p]
                           ELSE nas[CHOOSE q \in moved : TrashOf(q) = p]]
             /\ writers' = [AfterUploadBy(m, writers) EXCEPT
                               ![m].phase = "copied", ![m].op = "delete",
                               ![m].entries = IndexRemovedPaths(candidates, moved)]
    /\ UNCHANGED <<local, state, now, scan, hist, ptr, gui, worker, signals>>

\* _get_or_build_nas_db(force_rebuild=False) in upsert_nas_index_entries and
\* before the DELETE of delete_nas_only_to_trash: machine m downloads its
\* working copy (a failed download rebuilds and uploads the index first)
WriterFetch(m, download_fails) ==
    /\ writers[m].phase = "copied"
    /\ \E got \in {_get_or_build_nas_db(nasDb, nas, FALSE, download_fails)} :
         /\ nasDb' = got.db
         /\ writers' = [(IF got.rebuilt THEN AfterUploadBy(m, writers) ELSE writers)
                           EXCEPT ![m].phase = "fetched", ![m].rows = got.rows,
                                  ![m].stale = FALSE]
    /\ UNCHANGED <<nas, local, state, now, scan, last, hist, ptr, gui, worker, signals>>

PublishedRows_OnlyEntries(w, loc) ==
    IF w.op = "push" THEN UpsertRows(EmptyDict, loc, w.entries) ELSE w.rows

\* the rows machine m uploads: its working copy after the INSERT ... ON
\* CONFLICT UPDATE of a push, or after the DELETE of a delete
PublishedRows(w, loc) ==
    IF w.op = "push" THEN UpsertRows(w.rows, loc, w.entries) ELSE Remove(w.rows, w.entries)

\* the change of the working copy and _upload_temp_db_to_nas: the remote
\* index file is replaced by machine m's copy, and the operation returns
WriterPublish(m) ==
    /\ writers[m].phase = "fetched"
    /\ nasDb' = [exists |-> TRUE, rows |-> PublishedRows(writers[m], local[m])]
    /\ writers' = [AfterUploadBy(m, writers) EXCEPT
                      ![m].phase = "idle",
                      ![m].pushed = IF writers[m].op = "push"
                                    THEN @ \cup writers[m].entries ELSE @,
                      ![m].removed = IF writers[m].op = "delete"
                                     THEN @ \cup writers[m].entries ELSE @]
    /\ UNCHANGED <<nas, local, state, now, scan, last, hist, ptr, gui, worker, signals>>

InitWriters ==
    /\ nas = (a3 :> File(1, 1))
    /\ nasDb = rebuild_nas_index(nas)
    /\ local = [r \in Roots |-> IF r = R1 THEN (a1 :> File(1, 1)) ELSE (b1 :> File(1, 1))]
    /\ state = [r \in Roots |-> EmptyDict]
    /\ now = 1
    /\ scan = EmptyDict
    /\ last = NoOutcome
    /\ hist = NoHist
    /\ GuiIdle

NextWriters ==
    \/ \E m \in Roots, t \in Targets : WriterPushCopies(m, t)
    \/ \E m \in Roots, t \in Targets, df \in BOOLEAN : WriterDeleteMoves(m, t, df)
    \/ \E m \in Roots, df \in BOOLEAN : WriterFetch(m, df)
    \/ \E m \in Roots : WriterPublish(m)

SpecWriters == InitWriters /\ [][NextWriters]_vars

-----------------------------------------------------------------------------
(* The command-line tool: copy_local_files_to_nas walks a source directory, *)
(* copies what the share lacks, and with delete_source removes the source   *)
(* files of a run without error.  The source directory is a local root;     *)
(* its own name holds none of the patterns.                                 *)

w1 == <<"A", "WBPP", "w">>
n1 == <<"A", "Processing", "n">>
m1 == <<"ASI2600MC Pro Masters", "m">>

CopyTypes == {"IMAGES", "WIP"}

\* any(pattern in d for pattern in wip_patterns), case-sensitive, over the
\* directory names of the universe
CliWipDir(d) == d \in {"WBPP", "Processing"}

\* any(pattern in file for pattern in never_delete_patterns), over the
\* segments of the universe
NeverDelete(p) == \E i \in 1..Len(p) : p[i] \in {"Processing", "ASI2600MC Pro Masters"}

\* the files the walk reaches: for IMAGES the walk does not descend into a
\* directory with a WIP pattern; for WIP it handles only directories that
\* have such a directory on their path
CliWalked(loc, copy_type) ==
    {p \in DOMAIN loc :
        LET under_wip == \E i \in 1..(Len(p) - 1) : CliWipDir(p[i])
        IN  IF copy_type = "IMAGES" THEN ~under_wip ELSE under_wip}

CliOutcomes == {"ok", "smb_stat_fail", "write_fail", "utime_fail", "open_fail"}

\* the identity test of the copy loop: same size and whole-second mtime; a
\* failing stat sends the file to the copy
CliIdentical(tree, loc, p, o) ==
    o # "smb_stat_fail" /\ p \in DOMAIN tree /\ SameSizeMtime(tree[p], loc[p])

MayDelete_IgnoresErrors(delete_source, errors_detected) == delete_source

\* if not delete_source: return; if not errors_detected: delete
MayDelete(delete_source, errors_detected) == delete_source /\ ~errors_detected

\* copy_local_files_to_nas.  processed: the files the loop handled (all of
\* them unless open() raised and ended the run); remove_fails: the files
\* whose os.remove raises.
copy_local_files_to_nas(loc, tree, db, copy_type, delete_source, oc, processed, mkdir_fails, download_fails, upsert_fails, remove_fails, tm) ==
    LET files == CliWalked(loc, copy_type)
        raised == \E p \in files : oc[p] = "open_fail" /\ ~CliIdentical(tree, loc, p, oc[p])
        identical == {p \in processed : CliIdentical(tree, loc, p, oc[p])}
        attempted == processed \ identical
        copied == {p \in attempted : oc[p] \in {"ok", "smb_stat_fail"}}
        written == {p \in attempted : oc[p] # "open_fail"}
        tree2 == [p \in (DOMAIN tree) \cup written |->
                    IF p \in written THEN PushWritten(loc, p, oc[p], tm) ELSE tree[p]]
        got == _get_or_build_nas_db(db, tree2, FALSE, download_fails)
        db2 == IF copied = {} THEN db
               ELSE IF upsert_fails THEN got.db
               ELSE [exists |-> TRUE, rows |-> UpsertRows(got.rows, loc, copied)]
        errors_detected == \/ mkdir_fails
                           \/ attempted # copied
                           \/ (copied # {} /\ upsert_fails)
        deleted == IF MayDelete(delete_source, errors_detected)
                   THEN {p \in files : ~NeverDelete(p) /\ p \notin remove_fails}
                   ELSE {}
    IN  IF raised
        THEN [raised |-> TRUE, nas |-> tree2, db |-> db, local |-> loc, files |-> files,
              identical |-> identical, copied |-> copied,
              errors_detected |-> errors_detected, deleted |-> {}]
        ELSE [raised |-> FALSE, nas |-> tree2, db |-> db2, local |-> Remove(loc, deleted),
              files |-> files, identical |-> identical, copied |-> copied,
              errors_detected |-> errors_detected, deleted |-> deleted]

\* the sets of files the loop may have handled: all of them, or, when open()
\* raises for a file, any set of the others
CliProcessed(loc, tree, copy_type, oc) ==
    LET files == CliWalked(loc, copy_type)
        stop == {p \in files : oc[p] = "open_fail" /\ ~CliIdentical(tree, loc, p, oc[p])}
    IN  IF stop = {} THEN {files} ELSE {files \ stop, {}}

\* one run of the tool on the source directory R1
CliCopy(copy_type, delete_source, oc, processed, mkdir_fails, upsert_fails, remove_fails) ==
    \E res \in {copy_local_files_to_nas(local[R1], nas, nasDb, copy_type, delete_source,
                   oc, processed, mkdir_fails, FALSE, upsert_fails, remove_fails, now)} :
        /\ nas' = res.nas
        /\ nasDb' = res.db
        /\ local' = [local EXCEPT ![R1] = res.local]
        /\ last' = [Outcome("cli_copy", "", FALSE, FALSE, res.raised, FALSE,
                            Cardinality(res.files), Cardinality(res.copied),
                            Cardinality(res.identical), 0, res.copied, last)
                       EXCEPT !.deleted = res.deleted, !.identical = res.identical,
                              !.delete_source = delete_source,
                              !.errors_detected = res.errors_detected,
                              !.mode = copy_type]
        /\ UNCHANGED <<state, now, scan, hist, guiVars>>

CliPaths == {a1, a3, w1, n1, m1}

\* per-file outcomes with at most one file failing
CliOutcomeMaps(files) ==
    {oc \in [files -> CliOutcomes] :
        Cardinality({p \in files : oc[p] # "ok"}) <= 1}

InitCli ==
    /\ nas \in {t \in TreesOver({a1, a3}, {File(1, 1), File(0, 1)}) :
                   \A p \in DOMAIN t : t[p].size = 0 => p = a1}
    /\ nasDb = rebuild_nas_index(nas)
    /\ \E loc \in TreesOver(CliPaths, {File(1, 1)}) :
          local = [r \in Roots |-> IF r = R1 THEN loc ELSE EmptyDict]
    /\ state = [r \in Roots |-> EmptyDict]
    /\ now = 1
    /\ scan = EmptyDict
    /\ last = NoOutcome
    /\ hist = NoHist
    /\ GuiIdle

NextCli ==
    /\ last.n < MaxRuns - 1
    /\ \E ct \in CopyTypes, ds \in BOOLEAN, mf \in BOOLEAN, uf \in BOOLEAN :
         \E oc \in CliOutcomeMaps(CliWalked(local[R1], ct)) :
           \E pr \in CliProcessed(local[R1], nas, ct, oc),
              rf \in {{}, {a1}} :
                CliCopy(ct, ds, oc, pr, mf, uf, rf)

SpecCli == InitCli /\ [][NextCli]_vars

-----------------------------------------------------------------------------
(* SpecPushScan: pushes from R1 and scans of R1, with nothing else touching *)
(* the share or the local tree, from the starting states of SpecPush: the   *)
(* remote index may be absent, accurate, or lack entries of remote files.   *)

NextPushScan ==
    \/ /\ last.n < MaxRuns
       /\ \E t \in Targets :
            \E oc \in [Walk(local[R1], <<t>>) -> {"ok", "write_fail"}] : Push(t, oc, FALSE)
    \/ /\ last.n < MaxRuns
       /\ Scan(FALSE)

SpecPushScan == InitPush /\ [][NextPushScan]_vars

-----------------------------------------------------------------------------
(* SpecLoop: the user scans R1 and executes, for a target of the scan, the  *)
(* action the scan recommends (through the queue: a pull marks the          *)
(* checkpoint, the delete is the queue's ungated one), again and again.     *)
(* No operation fails and nothing else touches the share or the local tree. *)
(* The clock stands still and `last` only tells a scan from an execution,   *)
(* so that the state space is finite.                                       *)

\* the targets a scan or an execution may name: folders and root files
LoopTargets == Targets \cup {r0[1]}

\* scan_nas_pull_candidates(local_root = R1), the download going through
LoopScan ==
    /\ last.op # "scan"
    /\ \E got \in {_get_or_build_nas_db(nasDb, nas, FALSE, FALSE)} :
         /\ nasDb' = got.db
         /\ scan' = scan_nas_pull_candidates(refresh_local_index(R1), got.rows, state[R1])
    /\ last' = [NoOutcome EXCEPT !.op = "scan"]
    /\ UNCHANGED <<nas, local, state, now, hist, guiVars>>

\* the queue action for the scan's recommendation, every file going through
LoopExecute(t) ==
    /\ last.op = "scan"
    /\ t \in DOMAIN scan
    /\ recommended_action(scan[t]) # "No action"
    /\ LET action == IF recommended_action(scan[t]) = "Pull to Local" THEN "pull"
                     ELSE IF recommended_action(scan[t]) = "Push to NAS" THEN "push"
                     ELSE "delete_force"
           entry == QueueEntry(t, FALSE, action)
       IN  \E r \in {RunQueueAction(entry, R1, [p \in ActionFiles(entry, R1) |-> "ok"],
                                    FALSE, {})} :
             /\ nas' = r.nas
             /\ nasDb' = r.db
             /\ local' = [local EXCEPT ![R1] = r.local]
             /\ state' = IF ~r.raised /\ ShouldMarkPulled(action, r.result.error_files)
                         THEN mark_target_pulled(state, R1, t, now)
                         ELSE state
    /\ last' = [NoOutcome EXCEPT !.op = "execute", !.target = t]
    /\ UNCHANGED <<now, scan, hist, guiVars>>

LoopPaths == {a1, b1, r0}

InitLoop ==
    /\ nas \in TreesOver(LoopPaths, {File(1, 1)})
    /\ nasDb = rebuild_nas_index(nas)
    /\ \E loc \in TreesOver(LoopPaths, {File(1, 1), File(0, 1)}) :
          local = [r \in Roots |-> IF r = R1 THEN loc ELSE EmptyDict]
    /\ state \in {[r \in Roots |-> EmptyDict],
                  [r \in Roots |-> IF r = R1 THEN ("A" :> 1) ELSE EmptyDict]}
    /\ now = 1
    /\ scan = EmptyDict
    /\ last = NoOutcome
    /\ hist = NoHist
    /\ GuiIdle

NextLoop ==
    \/ LoopScan
    \/ \E t \in LoopTargets : LoopExecute(t)

\* the user keeps scanning, and keeps executing while an action is recommended
SpecLoop ==
    InitLoop /\ [][NextLoop]_vars
        /\ WF_vars(LoopScan) /\ WF_vars(\E t \in LoopTargets : LoopExecute(t))

-----------------------------------------------------------------------------
(* SpecFrame: pull_target_from_nas as the function is, with the skip log it *)
(* opens before the copy and without the checkpoint the queue adds after    *)
(* it, over a share whose index agrees with it.                             *)

\* _build_skip_log_path: <local_root>/.ap-image-backup/logs/skip_reasons_<target>_<time>.log
SkipLogPath(target) == <<".ap-image-backup", "logs", target>>

\* pull_target_from_nas(local_root = R1): the log is opened for writing and
\* gets its two header lines, then the trees are copied
PullTargetFromNas(target, include_flats, oc) ==
    /\ last.n < MaxRuns
    /\ \E res \in {pull_target_from_nas(nas, local[R1], target, include_flats, oc, now)} :
        /\ local' = [local EXCEPT ![R1] = Put(res.local, SkipLogPath(target), File(1, now))]
        /\ last' = [Outcome("pull", target, include_flats, FALSE, FALSE, FALSE,
                            res.total_files, res.copied_files, res.skipped_files,
                            res.error_files, res.copiedSet, last)
                       EXCEPT !.failed = res.errorSet]
    /\ UNCHANGED <<nas, nasDb, state, now, scan, hist, guiVars>>

InitFrame ==
    /\ nas \in TreesOver(PullPaths, {File(1, 1)})
    /\ nasDb = rebuild_nas_index(nas)
    /\ \E loc \in TreesOver(PullPaths, {File(1, 1), File(0, 1)}) :
          /\ \A p \in DOMAIN loc : loc[p].size = 0 => p = a1
          /\ local = [r \in Roots |-> IF r = R1 THEN loc ELSE EmptyDict]
    /\ state = [r \in Roots |-> EmptyDict]
    /\ now = 1
    /\ scan = EmptyDict
    /\ last = NoOutcome
    /\ hist = NoHist
    /\ GuiIdle

NextFrame ==
    \E t \in Targets, fl \in BOOLEAN :
       \E oc \in [PullFiles(nas, t, fl) -> PullOutcomes] : PullTargetFromNas(t, fl, oc)

SpecFrame == InitFrame /\ [][NextFrame]_vars

-----------------------------------------------------------------------------
(* SpecEdit: the four slots that edit or start the queue, called in any     *)
(* state of the window (they carry their own guard and do not rely on the   *)
(* buttons being disabled), with the queue worker and the slots of its      *)
(* signals.  `last` tells whether add_target_to_queue ran last, for which    *)
(* target, and whether that target was queued when it was called.  The      *)
(* queue is started less often than MaxStarts allows, on an empty share.    *)

add_target_to_queue_Appends(g, target, include_flats, action) ==
    IF g.queue_running THEN g
    ELSE [g EXCEPT !.queue_entries = Append(@, QueueEntry(target, include_flats, action))]

\* add_target_to_queue: refused while the queue runs; an entry for the
\* target gets the new action and include_flats; otherwise one is appended
add_target_to_queue(g, target, include_flats, action) ==
    IF g.queue_running THEN g
    ELSE IF \E i \in 1..Len(g.queue_entries) : g.queue_entries[i].target = target
    THEN [g EXCEPT !.queue_entries[FirstEntryFor(g.queue_entries, target)] =
                       [@ EXCEPT !.include_flats = include_flats, !.action = action]]
    ELSE [g EXCEPT !.queue_entries = Append(@, QueueEntry(target, include_flats, action))]

\* remove_selected_queue_item: refused while the queue runs; row_index is
\* the selected row, 0 for no selection (rows count from 1 here)
remove_selected_queue_item(g, row_index) ==
    IF g.queue_running THEN g
    ELSE IF row_index \in 1..Len(g.queue_entries)
    THEN [g EXCEPT !.queue_entries =
             SubSeq(@, 1, row_index - 1) \o SubSeq(@, row_index + 1, Len(@))]
    ELSE g

\* clear_queue: refused while the queue runs
clear_queue(g) ==
    IF g.queue_running THEN g ELSE [g EXCEPT !.queue_entries = <<>>]

\* whether start_queue gets past its early returns (the fields are filled,
\* the local path exists and the user confirms)
QueueStarts(g) == ~g.queue_running /\ g.queue_entries # <<>>

\* start_queue: the window after the call
start_queue(g) ==
    IF QueueStarts(g)
    THEN [g EXCEPT !.queue_entries =
                      [i \in 1..Len(@) |-> [@[i] EXCEPT !.status = "Queued",
                                                        !.progress_percent = 0,
                                                        !.error_files = 0]],
                   !.queue_running = TRUE,
                   !.busy = set_busy_state(TRUE, TRUE)]
    ELSE g

\* what `last` records of a slot call
SlotCall(slot, target) ==
    [NoOutcome EXCEPT !.n = last.n, !.op = slot, !.target = target,
                      !.gated = IsQueued(target)]

CallAddTargetToQueue(target, include_flats, action) ==
    /\ gui' = add_target_to_queue(gui, target, include_flats, action)
    /\ last' = SlotCall("add_target_to_queue", target)
    /\ UNCHANGED <<nas, nasDb, local, state, now, scan, hist, ptr, worker, signals, writers>>

CallRemoveSelectedQueueItem(row_index) ==
    /\ gui' = remove_selected_queue_item(gui, row_index)
    /\ last' = SlotCall("", "")
    /\ UNCHANGED <<nas, nasDb, local, state, now, scan, hist, ptr, worker, signals, writers>>

CallClearQueue ==
    /\ gui' = clear_queue(gui)
    /\ last' = SlotCall("", "")
    /\ UNCHANGED <<nas, nasDb, local, state, now, scan, hist, ptr, worker, signals, writers>>

\* start_queue: a started run hands a copy of the entries to a QueueWorker
CallStartQueue ==
    /\ last.n < MaxStarts - 1
    /\ gui' = start_queue(gui)
    /\ worker' = IF QueueStarts(gui)
                 THEN [kind |-> "queue", local_path |-> gui.local_path_edit,
                       queue_entries |-> gui'.queue_entries, index |-> 1]
                 ELSE worker
    /\ last' = [SlotCall("", "") EXCEPT
                   !.n = IF QueueStarts(gui) THEN last.n + 1 ELSE last.n]
    /\ UNCHANGED <<nas, nasDb, local, state, now, scan, hist, ptr, signals, writers>>

\* the action tags the slot is called with
EditActions == {"pull", "push"}

NextEdit ==
    \/ \E t \in Targets, f \in BOOLEAN, a \in EditActions : CallAddTargetToQueue(t, f, a)
    \/ \E i \in 0..Cardinality(Targets) : CallRemoveSelectedQueueItem(i)
    \/ CallClearQueue
    \/ CallStartQueue
    \/ WorkerRunItem
    \/ WorkerFinish
    \/ OnQueuePosition
    \/ OnQueueItemFinished
    \/ OnFailed
    \/ OnQueueFinished

InitEdit ==
    /\ nas = EmptyDict
    /\ nasDb = rebuild_nas_index(nas)
    /\ local = [r \in Roots |-> IF r = R1 THEN (a2 :> File(1, 1)) ELSE EmptyDict]
    /\ state = [r \in Roots |-> EmptyDict]
    /\ now = 1
    /\ scan = EmptyDict
    /\ last = NoOutcome
    /\ hist = NoHist
    /\ GuiIdle

SpecEdit == InitEdit /\ [][NextEdit]_vars

-----------------------------------------------------------------------------
(* Claims *)

LastPullIn(st, root, target) ==
    IF target \in DOMAIN st[root] THEN st[root][target] ELSE 0

\* C1: every remote file that a scan recommends for deletion to trash, or
\* that a checkpoint-gated delete moves to trash, was in the local tree when
\* an earlier zero-error pull of its target completed.
C1_TrashCandidatesWerePulled ==
    (hist.flagged \cup hist.moved) \subseteq hist.pulled

\* C2: a checkpoint-gated delete for a target without a recorded checkpoint
\* raises, and moves no remote file, removes no remote directory and leaves
\* the remote index as it was.
C2_GatedDeleteNeedsCheckpoint ==
    [][(/\ last'.n = last.n + 1
        /\ last'.op = "delete"
        /\ last'.gated
        /\ LastPull(R1, last'.target) <= 0)
       => (last'.raised /\ nas' = nas /\ nasDb' = nasDb)]_vars

\* a gated delete was refused for a target that holds a remote-only file
C2_Witness ==
    /\ last.op = "delete" /\ last.gated /\ last.raised
    /\ \E p \in DOMAIN nas : p[1] = last.target /\ p \notin DOMAIN local[R1]

\* C3: in a queue run, a file leaves the share for the trash only if its
\* target has a checkpoint > 0 in the run's local root and the file's mtime
\* is at most that checkpoint.
C3_QueueDeleteIsCheckpointGated ==
    [][\A p \in TargetPaths :
          (p \in DOMAIN nas /\ p \notin DOMAIN nas' /\ TrashOf(p) \in DOMAIN nas')
          => (/\ LastPull(worker.local_path, p[1]) > 0
              /\ nas[p].mtime <= LastPull(worker.local_path, p[1]))]_vars

\* C4: the checkpoint of a target changes only when the window handles the
\* item_finished signal of a pull of that target that ended with
\* error_files = 0.
C4_CheckpointChangesOnlyOnCleanPull ==
    [][\A r \in Roots, t \in Targets :
          LastPullIn(state', r, t) # LastPullIn(state, r, t)
          => (/\ signals # <<>>
              /\ Head(signals).name = "item_finished"
              /\ Head(signals).target = t
              /\ Head(signals).result.action = "pull"
              /\ Head(signals).result.error_files = 0)]_vars

\* one pull item ended clean and its target has a checkpoint, another pull
\* item ended with errors and its target has none
C4_Witness ==
    \E i, j \in 1..Len(gui.queue_entries) :
        /\ gui.queue_entries[i].action = "pull"
        /\ gui.queue_entries[i].status = "Done"
        /\ \E r \in Roots : LastPull(r, gui.queue_entries[i].target) > 0
        /\ gui.queue_entries[j].action = "pull"
        /\ gui.queue_entries[j].status = "Done with errors"
        /\ \A r \in Roots : LastPull(r, gui.queue_entries[j].target) = 0

\* C5: a checkpoint written during a queue run is written, with the current
\* time, to the store of the local root the run's pulls copied into.
C5_CheckpointGoesToPulledRoot ==
    [][\A r \in Roots, t \in Targets :
          LastPullIn(state', r, t) # LastPullIn(state, r, t)
          => (r = worker.local_path /\ LastPullIn(state', r, t) = now)]_vars

\* a checkpoint exists at the last pull time
HasCheckpoint(r) == r.last_pull_timestamp > 0

\* C6 as stated: the ordered table, with delete recommended whenever a
\* checkpoint exists and the latest missing mtime is at most the checkpoint.
C6_RecommendedActionTable ==
    ptr.done =>
        LET r == ptr.r
        IN  ptr.recommended_action =
              IF r.missing_locally_files > 0
              THEN IF HasCheckpoint(r) /\ r.missing_latest_mtime <= r.last_pull_timestamp
                   THEN "Delete on NAS (_Trash)"
                   ELSE "Pull to Local"
              ELSE IF r.local_only_files > 0 THEN "Push to NAS"
              ELSE IF r.nas_files > 0 /\ r.different_files > 0 THEN "Pull to Local"
              ELSE "No action"

\* C6 amended: delete is recommended only when, in addition, the latest
\* missing mtime is > 0; with missing files of mtime 0 the recommendation is
\* to pull.
C6_RecommendedActionTableAmended ==
    ptr.done =>
        LET r == ptr.r
        IN  /\ (r.missing_locally_files > 0 /\ HasCheckpoint(r)
                  /\ r.missing_latest_mtime > 0
                  /\ r.missing_latest_mtime <= r.last_pull_timestamp)
               => ptr.recommended_action = "Delete on NAS (_Trash)"
            /\ (r.missing_locally_files > 0
                  /\ ~(HasCheckpoint(r) /\ r.missing_latest_mtime > 0
                        /\ r.missing_latest_mtime <= r.last_pull_timestamp))
               => ptr.recommended_action = "Pull to Local"
            /\ (r.missing_locally_files = 0 /\ r.local_only_files > 0)
               => ptr.recommended_action = "Push to NAS"
            /\ (r.missing_locally_files = 0 /\ r.local_only_files = 0
                  /\ r.nas_files > 0 /\ r.different_files > 0)
               => ptr.recommended_action = "Pull to Local"
            /\ (r.missing_locally_files = 0 /\ r.local_only_files = 0
                  /\ ~(r.nas_files > 0 /\ r.different_files > 0))
               => ptr.recommended_action = "No action"

\* files are missing locally, a checkpoint exists, the missing files have
\* mtime 0, and the recommendation was read
C6_Witness ==
    /\ ptr.done
    /\ ptr.r.missing_locally_files > 0
    /\ ptr.r.last_pull_timestamp > 0
    /\ ptr.r.missing_latest_mtime = 0
    /\ ptr.recommended_action = "Pull to Local"

\* C7: status follows the ordered first-match table.
C7_StatusTable ==
    ptr.done =>
        LET r == ptr.r
        IN  /\ r.nas_files = 0 => ptr.status = "Empty on NAS"
            /\ (r.nas_files > 0 /\ r.local_files = 0 /\ r.missing_locally_files > 0)
               => ptr.status = "Not pulled"
            /\ (r.nas_files > 0 /\ r.local_files > 0 /\ r.missing_locally_files > 0)
               => ptr.status = "Partially pulled"
            /\ (r.nas_files > 0 /\ r.missing_locally_files = 0 /\ r.different_files > 0)
               => ptr.status = "Local differs"
            /\ (r.nas_files > 0 /\ r.missing_locally_files = 0 /\ r.different_files = 0)
               => ptr.status = "Up to date"

\* the first row wins over the second: nothing on the share, yet files
\* counted as missing locally
C7_Witness ==
    /\ ptr.done
    /\ ptr.r.nas_files = 0
    /\ ptr.r.local_files = 0
    /\ ptr.r.missing_locally_files > 0
    /\ ptr.status = "Empty on NAS"

\* C8: for every target a scan reports, the counts partition the entries of
\* the two indexes, and missing_latest_mtime is the largest mtime among the
\* target's remote-only entries.
C8_ScanCountsPartition ==
    \A t \in DOMAIN scan :
        LET r == scan[t]
            rows == nasDb.rows
            remoteOnly == {p \in DOMAIN rows : p[1] = t /\ p \notin DOMAIN local[R1]}
        IN  /\ r.nas_files = r.matched_files + r.missing_locally_files + r.different_files
            /\ r.local_files = r.matched_files + r.different_files + r.local_only_files
            /\ r.wip_local_only_files <= r.local_only_files
            /\ r.nas_files = Cardinality({p \in DOMAIN rows : p[1] = t})
            /\ r.local_files = Cardinality({p \in DOMAIN local[R1] : p[1] = t})
            /\ r.missing_locally_files = Cardinality(remoteOnly)
            /\ \A p \in remoteOnly : rows[p].mtime <= r.missing_latest_mtime
            /\ remoteOnly # {} =>
                 \E p \in remoteOnly : rows[p].mtime = r.missing_latest_mtime

\* the scan of: A/L/1 the same on both sides, A/wbpp/2 on the share only
C8_Witness ==
    /\ "A" \in DOMAIN scan
    /\ scan["A"].nas_files = 2
    /\ scan["A"].local_files = 1
    /\ scan["A"].matched_files = 1
    /\ scan["A"].missing_locally_files = 1

\* the last operation is the second of two pulls of one target, with the
\* same options and nothing in between
SecondPull ==
    /\ last.op = "pull"
    /\ last.prevOp = "pull"
    /\ last.prevTarget = last.target
    /\ last.prevFlats = last.flats

PushReturned == last'.n = last.n + 1 /\ last'.op = "push" /\ ~last'.raised

\* the remote index after the step is `before` with one upserted row, made
\* of the path, the pushed target and the local size and mtime, for each
\* file counted as copied
IndexIsUpsertOf(before) ==
    /\ nasDb'.exists \/ last'.copiedSet = {}
    /\ DOMAIN nasDb'.rows = (DOMAIN before) \cup last'.copiedSet
    /\ \A p \in DOMAIN nasDb'.rows :
         nasDb'.rows[p] =
            IF p \in last'.copiedSet
            THEN Row(last'.target, local[R1][p].size, local[R1][p].mtime)
            ELSE before[p]

PushCounts ==
    /\ last'.copied = Cardinality(last'.copiedSet)
    /\ last'.copied + last'.skipped + last'.errors = last'.total
    /\ \A p \in last'.copiedSet : p \in DOMAIN nas' /\ nas'[p] = local[R1][p]

\* C10 as stated: after a push the remote index is its state before the
\* push with one upsert per copied file, and nothing else changed.
C10_PushUpsertsCopiedOnly ==
    [][PushReturned => (PushCounts /\ IndexIsUpsertOf(nasDb.rows))]_vars

\* C10 amended: that holds when the remote index was downloaded; when the
\* download fails the upserts are applied to an index rebuilt from the
\* remote tree as the push left it.
C10_PushUpsertsCopiedOnlyAmended ==
    [][PushReturned =>
          /\ PushCounts
          /\ ~last'.rebuilt => IndexIsUpsertOf(nasDb.rows)
          /\ last'.rebuilt => IndexIsUpsertOf(IndexRowsOf(nas'))]_vars

\* a push copied one new file and skipped one identical file, and the
\* downloaded index gained the one entry
C10_Witness ==
    /\ last.op = "push" /\ ~last.raised /\ ~last.rebuilt
    /\ last.copied = 1 /\ last.skipped = 1 /\ last.errors = 0
    /\ last.copiedSet \subseteq DOMAIN nasDb.rows

\* the step is a trash-delete that returned
DeleteReturned == last'.n = last.n + 1 /\ last'.op = "delete" /\ ~last'.raised

\* the file at remote path q has left it for its place in the trash
MovedToTrash(q) ==
    /\ q \notin DOMAIN nas'
    /\ TrashOf(q) \notin DOMAIN nas
    /\ TrashOf(q) \in DOMAIN nas'
    /\ nas'[TrashOf(q)] = nas[q]

\* C11: a trash-delete leaves every remote file either where it was, as it
\* was, or at _Trash/<date>/<its path> with the same content; the files it
\* counts as moved are the ones now in the trash, and the trash gains
\* nothing else.
C11_DeleteMovesNeverDestroys ==
    [][DeleteReturned =>
          /\ \A q \in DOMAIN nas :
                \/ q \in DOMAIN nas' /\ nas'[q] = nas[q]
                \/ MovedToTrash(q)
          /\ \A q \in last'.copiedSet : q \in DOMAIN nas /\ MovedToTrash(q)
          /\ last'.copied = Cardinality({q \in DOMAIN nas : q \notin DOMAIN nas'})
          /\ Cardinality(DOMAIN nas') = Cardinality(DOMAIN nas)]_vars

\* a delete met a candidate whose place in the trash was already taken by
\* an earlier delete of the same day: the move failed, both files are kept
C11_Witness ==
    /\ last.op = "delete" /\ ~last.raised
    /\ last.errors > 0
    /\ \E q \in last.candidates : q \in DOMAIN nas /\ TrashOf(q) \in DOMAIN nas

\* the remote index after the step is `before` without the candidates
IndexIsRemovalFrom(before) ==
    /\ nasDb'.exists
    /\ DOMAIN nasDb'.rows = (DOMAIN before) \ last'.candidates
    /\ \A p \in DOMAIN nasDb'.rows : nasDb'.rows[p] = before[p]

\* C12 as stated: after a trash-delete the remote index has no entry for a
\* candidate and every other entry is as it was before the operation.
C12_DeleteUnindexesCandidatesOnly ==
    [][DeleteReturned => IndexIsRemovalFrom(nasDb.rows)]_vars

\* C12 amended: the index has no entry for a candidate; the other entries
\* are as before when the index was downloaded, and are those of a walk of
\* the remote tree (before or after the moves) when a download failed.
C12_DeleteUnindexesCandidatesAmended ==
    [][DeleteReturned =>
          /\ last'.candidates \cap DOMAIN nasDb'.rows = {}
          /\ ~last'.rebuilt => IndexIsRemovalFrom(nasDb.rows)
          /\ last'.rebuilt =>
                \/ IndexIsRemovalFrom(IndexRowsOf(nas))
                \/ IndexIsRemovalFrom(IndexRowsOf(nas'))]_vars

\* a delete with a downloaded index had candidates, one of which it could
\* not move, and entries of other paths are left in the index
C12_Witness ==
    /\ last.op = "delete" /\ ~last.raised /\ ~last.rebuilt
    /\ last.candidates # {}
    /\ last.errors > 0
    /\ last.candidates \cap DOMAIN nasDb.rows = {}
    /\ DOMAIN nasDb.rows # {}

\* the rows hold one entry per file of the tree, with the file's size and
\* the whole seconds of its mtime
RowsMatchTree(rows, tree) ==
    /\ DOMAIN rows = DOMAIN tree
    /\ \A p \in DOMAIN rows :
         /\ rows[p].size = tree[p].size
         /\ rows[p].mtime = tree[p].mtime

\* C13: when the first download of the remote index fails, without a forced
\* rebuild, and the operation returns, the index was rebuilt from the walk
\* of the remote tree and uploaded, and the working copy holds exactly the
\* files of the remote tree.
C13_DownloadFailureFallsBackToRebuild ==
    (/\ last.op = "get_or_build"
     /\ ~last.force
     /\ last.download \in {"open_fail", "read_fail"}
     /\ ~last.raised)
    => (/\ last.rebuilt
        /\ nasDb.exists
        /\ RowsMatchTree(nasDb.rows, nas)
        /\ last.rows = nasDb.rows)

\* the download of an index that no longer matched the share failed, and a
\* working copy with the share's files came back
C13_Witness ==
    /\ last.op = "get_or_build" /\ ~last.force /\ ~last.raised
    /\ last.download = "read_fail"
    /\ last.prevOp = "none"
    /\ b1 \notin DOMAIN last.rows
    /\ Cardinality(DOMAIN last.rows) = Cardinality(IndexPaths)

\* C14: when an index operation ends, on any exit path, no transient local
\* copy of the remote index that it created is left on disk.
C14_NoTransientCopyLeft ==
    last.op \in {"rebuild", "get_or_build", "upsert"} => last.leaked = 0

\* C19: after an index operation, the target of every index entry is the
\* first segment of its path, and "(root)" for a file directly under the
\* root.
C19_TargetIsFirstSegmentOrRoot ==
    last.op \in {"rebuild", "get_or_build", "upsert", "refresh"} =>
    \A rows \in {nasDb.rows, last.rows} :
        \A p \in DOMAIN rows :
            rows[p].target = IF Len(p) > 1 THEN p[1] ELSE "(root)"

\* C20: a rebuild that returns leaves exactly one entry per file outside
\* the index's own storage, with the file's size and the whole seconds of
\* its mtime, whatever the index held before; the remote rebuild returns
\* the number of files.
C20_RebuildRoundTrip ==
    /\ (last.op = "rebuild" /\ ~last.raised)
       => (/\ RowsMatchTree(nasDb.rows, nas)
           /\ last.count = Cardinality(DOMAIN nas)
           /\ Cardinality(DOMAIN nasDb.rows) = last.count)
    /\ last.op = "refresh"
       => LET outside == {p \in DOMAIN local[R1] : p[1] # CacheDir}
          IN  /\ RowsMatchTree(last.rows, [p \in outside |-> local[R1][p]])
              /\ Cardinality(DOMAIN last.rows) = Cardinality(outside)

\* a remote rebuild over two files, one directly under the root and one
\* with a fraction of a second in its mtime
C20_Witness ==
    /\ last.op = "rebuild" /\ ~last.raised /\ last.prevOp = "none"
    /\ last.count = Cardinality(IndexPaths)
    /\ \E p \in DOMAIN nas : nas[p].frac = 1
    /\ DOMAIN nasDb.rows = IndexPaths


-----------------------------------------------------------------------------
(* Queue runs *)

CountSignals(seq, name) == Cardinality({i \in 1..Len(seq) : seq[i].name = name})

\* the signals not yet handled: a run in progress has emitted no finished;
\* a run that ended has exactly one, behind every other signal; outside a
\* run there is none
RunSignalsInOrder ==
    IF gui.queue_running
    THEN /\ worker.kind \in {"queue", "done"}
         /\ worker.kind = "queue" => CountSignals(signals, "finished") = 0
         /\ worker.kind = "done" =>
               /\ CountSignals(signals, "finished") = 1
               /\ signals[Len(signals)].name = "finished"
    ELSE CountSignals(signals, "finished") = 0

\* the window takes the finished signal off its event queue
FinishedHandled ==
    /\ signals # <<>>
    /\ Head(signals).name = "finished"
    /\ signals' = Tail(signals)

\* C15: every queue run emits finished exactly once, behind all other
\* signals of the run, whether every item completed or one failed; the step
\* that handles it leaves the window idle (queue_running false, the buttons
\* enabled again, nothing of the run left to handle), so that the queue can
\* be modified and started again.
C15_FinishedOnceThenIdle ==
    [][/\ RunSignalsInOrder'
       /\ FinishedHandled =>
            /\ gui.queue_running
            /\ ~gui'.queue_running
            /\ ~gui'.busy
            /\ signals' = <<>>
            /\ worker'.kind = "done"
            /\ gui'.queue_entries # <<>>]_vars

\* a run in which an item failed outright (its entry was announced and never
\* finished) has ended and its finished signal has been handled
C15_Witness ==
    /\ ~gui.queue_running
    /\ ~gui.busy
    /\ signals = <<>>
    /\ worker.kind = "done"
    /\ worker.queue_entries # <<>>
    /\ \E i \in 1..Len(gui.queue_entries) : gui.queue_entries[i].status = "Running"


\* the worker is about to run the entry at its position
ItemPending == worker.kind = "queue" /\ worker.index <= Len(worker.queue_entries)

\* the entry at the worker's position cannot complete: its tag is none of
\* the four the worker dispatches on, or its action raises
ItemFails ==
    LET entry == worker.queue_entries[worker.index]
    IN  \/ entry.action \notin {"pull", "push", "delete", "delete_force"}
        \/ \E oc \in [ActionFiles(entry, worker.local_path) -> ActionOutcomes(entry)] :
              RunQueueAction(entry, worker.local_path, oc, FALSE, {}).raised

\* the signals a step of the worker emitted
Emitted == SubSeq(signals', Len(signals) + 1, Len(signals'))

\* C16: when the action of a queue item raises, or the item carries an action
\* tag other than pull, push, delete or delete_force, the worker's step for
\* that item emits failed once and finished after it, emits no item_finished,
\* and ends the run; once the run has ended no further item is started
\* (nothing is announced, the share, its index and the local trees stay as
\* they are).
C16_FailedItemEndsRun ==
    [][/\ (ItemPending /\ ItemFails /\ Len(signals') > Len(signals)) =>
             /\ worker'.kind = "done"
             /\ worker'.index = worker.index
             /\ CountSignals(Emitted, "failed") = 1
             /\ CountSignals(Emitted, "finished") = 1
             /\ CountSignals(Emitted, "item_finished") = 0
             /\ Emitted[Len(Emitted) - 1].name = "failed"
             /\ Emitted[Len(Emitted)].name = "finished"
       /\ worker.kind = "done" =>
             /\ worker' = worker
             /\ Len(signals') <= Len(signals)
             /\ nas' = nas /\ nasDb' = nasDb /\ local' = local]_vars

\* a request of two entries whose first carries an unknown tag has ended at
\* that entry, the failed and finished signals waiting to be handled
C16_Witness ==
    /\ worker.kind = "done"
    /\ Len(worker.queue_entries) = 2
    /\ worker.index = 1
    /\ worker.queue_entries[1].action = "verify"
    /\ Len(signals) >= 2
    /\ signals[Len(signals) - 1].name = "failed"
    /\ signals[Len(signals)].name = "finished"


-----------------------------------------------------------------------------
(* Folder comparison *)

CompareReturned == last.op = "compare" /\ ~last.raised

\* the included local files of a folder, as the last comparison saw them
FolderFiles(f) ==
    {p \in DOMAIN local[R1] :
        /\ _include_file(p, last.mode)
        /\ (IF Len(p) <= 1 THEN "(root)" ELSE p[1]) = f}

\* the file has a remote counterpart of equal size and equal mtime, mtimes
\* taken in whole seconds
HasEqualCounterpart(p) ==
    /\ p \in DOMAIN nas
    /\ nas[p].size = local[R1][p].size
    /\ nas[p].mtime = local[R1][p].mtime

\* C18: for every folder compare_local_to_nas reports, local_files =
\* backed_up + missing_on_nas + different, the files absent from the share
\* are the missing ones, the files present but unequal in size or mtime are
\* the different ones, and safe_to_delete is true exactly when the folder
\* has an included local file and every included local file has a remote
\* counterpart of equal size and mtime.
C18_FolderCountsPartition ==
    CompareReturned =>
      \A f \in DOMAIN scan :
        LET r == scan[f]
            fs == FolderFiles(f)
        IN  /\ r.local_files = Cardinality(fs)
            /\ r.local_files =
                  r.backed_up_files + r.missing_on_nas_files + r.different_files
            /\ r.missing_on_nas_files = Cardinality({p \in fs : p \notin DOMAIN nas})
            /\ r.different_files =
                  Cardinality({p \in fs : p \in DOMAIN nas /\ ~HasEqualCounterpart(p)})
            /\ r.safe_to_delete <=>
                  (fs # {} /\ \A p \in fs : HasEqualCounterpart(p))

\* C18, amended: the same, where a file whose remote stat fails with an
\* error other than not-found counts as different, whatever is on the share;
\* safe_to_delete is true exactly when the folder has an included local file
\* and every included local file was stat'ed and found equal.
C18_FolderCountsPartitionAmended ==
    CompareReturned =>
      /\ DOMAIN scan = {f \in {"(root)", "A", "B"} : FolderFiles(f) # {}}
      /\ \A f \in DOMAIN scan :
           LET r == scan[f]
               fs == FolderFiles(f)
               ok == fs \ last.failed
           IN  /\ r.local_files = Cardinality(fs)
               /\ r.local_files =
                     r.backed_up_files + r.missing_on_nas_files + r.different_files
               /\ r.backed_up_files = Cardinality({p \in ok : HasEqualCounterpart(p)})
               /\ r.missing_on_nas_files =
                     Cardinality({p \in ok : p \notin DOMAIN nas})
               /\ r.different_files =
                     Cardinality((fs \cap last.failed) \cup
                        {p \in ok : p \in DOMAIN nas /\ ~HasEqualCounterpart(p)})
               /\ r.safe_to_delete <=>
                     (fs # {} /\ \A p \in fs : p \in ok /\ HasEqualCounterpart(p))

\* a comparison reported a folder of two files that is safe to delete, and
\* the root folder whose one file could not be stat'ed counted as different
C18_Witness ==
    /\ CompareReturned
    /\ "A" \in DOMAIN scan
    /\ scan["A"].local_files = 2
    /\ scan["A"].safe_to_delete
    /\ "(root)" \in DOMAIN scan
    /\ last.failed = {r0}
    /\ scan["(root)"].different_files = 1
    /\ ~scan["(root)"].safe_to_delete


-----------------------------------------------------------------------------
(* Operations on a local root that does not exist *)

\* an operation of the engine was invoked with a root that did not exist
InvokedAtMissingRoot == last'.n = last.n + 1 /\ last'.root \notin DOMAIN local

\* C17: every operation (compare, scan, pull, push, gated delete, forced
\* delete) invoked with a local root that does not exist fails: it raises,
\* no remote file is written or moved, the remote index is not changed, and
\* nothing is created on the local filesystem (the root still does not
\* exist).
C17_MissingRootFailsFast ==
    [][InvokedAtMissingRoot =>
          /\ last'.raised
          /\ nas' = nas
          /\ nasDb' = nasDb
          /\ local' = local
          /\ state' = state]_vars


-----------------------------------------------------------------------------
(* Trash-delete: candidates and move failures *)

\* the rows the delete selected from: the remote index as it was, or, when
\* it was absent or its download failed, the rows of a walk of the share
SelectedFromIndex ==
    \/ nasDb.exists /\ last'.rows = nasDb.rows
    \/ last'.rows = IndexRowsOf(nas)

\* C22: the files a trash-delete for target T attempts to move are exactly
\* the entries of the remote index whose target is T, whose path is not in
\* the local tree, and, in gated mode, whose mtime is at most T's
\* checkpoint; no file of another target and no file that exists locally
\* leaves its place on the share.
C22_DeleteCandidatesExact ==
    [][DeleteReturned =>
          /\ SelectedFromIndex
          /\ last'.candidates =
                {p \in DOMAIN last'.rows :
                    /\ p[1] = last'.target
                    /\ p \notin DOMAIN local[R1]
                    /\ last'.gated => last'.rows[p].mtime <= LastPullIn(state, R1, last'.target)}
          /\ \A q \in DOMAIN nas :
                (q[1] # last'.target \/ q \in DOMAIN local[R1]) =>
                    (q \in DOMAIN nas' /\ nas'[q] = nas[q])
          /\ (DOMAIN nas) \ (DOMAIN nas') \subseteq last'.candidates]_vars

\* a gated delete moved a file of its target while the index held a newer
\* remote-only file of the target, a file of the target that is also local,
\* or a remote-only file of another target, none of which it selected
C22_Witness ==
    /\ last.op = "delete" /\ ~last.raised /\ last.gated
    /\ last.copiedSet # {}
    /\ \E p \in DOMAIN last.rows : p \notin last.candidates

\* C24: when the move of a candidate fails the error count goes up by one
\* and the file stays where it was, as it was; the other candidates are
\* still moved, and moved + errored is the number of candidates.
C24_MoveFailureIsCounted ==
    [][DeleteReturned =>
          /\ last'.copied + last'.errors = Cardinality(last'.candidates)
          /\ last'.total = Cardinality(last'.candidates)
          /\ last'.errors = Cardinality(last'.candidates \ last'.copiedSet)
          /\ \A q \in last'.candidates \ last'.copiedSet :
                q \in DOMAIN nas => (q \in DOMAIN nas' /\ nas'[q] = nas[q])
          /\ \A q \in last'.candidates \ last'.failed :
                (q \in DOMAIN nas /\ TrashOf(q) \notin DOMAIN nas) => MovedToTrash(q)]_vars

\* a delete of two candidates failed to move one, which is still on the
\* share, and moved the other
C24_Witness ==
    /\ last.op = "delete" /\ ~last.raised
    /\ last.failed # {}
    /\ last.errors = 1
    /\ last.copied = 1
    /\ \A q \in last.failed : q \in DOMAIN nas
    /\ \A q \in last.copiedSet : TrashOf(q) \in DOMAIN nas


-----------------------------------------------------------------------------
(* Pull: per-file failures *)

PullReturned == last'.n = last.n + 1 /\ last'.op = "pull"

\* the files of the flats trees of a pull: those of _FlatWizard/<e> for the
\* sub-directories <e> of the target on the share
FlatsWalked(target, include_flats) ==
    IF include_flats
    THEN {p \in DOMAIN nas :
            /\ Len(p) > 2 /\ p[1] = FlatsArea
            /\ \E q \in DOMAIN nas : Len(q) > 2 /\ q[1] = target /\ q[2] = p[2]}
    ELSE {}

\* C23: in a pull every walked file is counted once, as copied, skipped or
\* errored, for the primary tree and for the flats trees separately; a file
\* whose stat, read or write failed adds one error and the files after it
\* are still handled: those counted copied are now local as they are on the
\* share, those counted skipped were already.
C23_PullCountsEveryFileOnce ==
    [][PullReturned =>
          LET P == {p \in DOMAIN nas : p[1] = last'.target}
              F == FlatsWalked(last'.target, last'.flats)
              skippedSet == ((P \cup F) \ last'.failed) \ last'.copiedSet
          IN  /\ last'.lights.copied + last'.lights.skipped + last'.lights.errors
                    = Cardinality(P)
              /\ last'.flatsCounts.copied + last'.flatsCounts.skipped
                    + last'.flatsCounts.errors = Cardinality(F)
              /\ last'.copied = last'.lights.copied + last'.flatsCounts.copied
              /\ last'.skipped = last'.lights.skipped + last'.flatsCounts.skipped
              /\ last'.errors = last'.lights.errors + last'.flatsCounts.errors
              /\ last'.failed \subseteq P \cup F
              /\ last'.copiedSet \subseteq (P \cup F) \ last'.failed
              /\ last'.lights.errors = Cardinality(last'.failed \cap P)
              /\ last'.flatsCounts.errors = Cardinality(last'.failed \cap F)
              /\ last'.lights.copied = Cardinality(last'.copiedSet \cap P)
              /\ \A p \in last'.copiedSet :
                    p \in DOMAIN local'[R1] /\ local'[R1][p] = nas[p]
              /\ \A p \in skippedSet :
                    p \in DOMAIN local[R1] /\ local[R1][p] = nas[p]]_vars

\* a pull with flats counted an error in the primary tree and went on to
\* copy a file of the flats tree
C23_Witness ==
    /\ last.op = "pull" /\ last.flats
    /\ last.lights.errors = 1
    /\ last.flatsCounts.copied = 1
    /\ last.total = 2


-----------------------------------------------------------------------------
(* Index rebuilds: files that cannot be stat-ed *)

\* C26: a rebuild of the local or the remote index in which the stat of a
\* file fails still completes, and the resulting index has an entry for
\* every other file of the tree.
C26_RebuildSkipsUnstatableFile ==
    /\ (last.op = "rebuild" /\ last.failed # {}) =>
          /\ ~last.raised
          /\ nasDb.exists
          /\ (DOMAIN nas) \ last.failed \subseteq DOMAIN nasDb.rows
    /\ (last.op = "refresh" /\ last.failed # {}) =>
          /\ ~last.raised
          /\ {p \in DOMAIN local[R1] : ~InCacheDir(p)} \ last.failed
                \subseteq DOMAIN last.rows


-----------------------------------------------------------------------------
(* Work-in-progress markers *)

\* a segment of the path contains one of the markers in the markers' own
\* letter case
HasMarkerInExactCase(p) == \E i \in 1..Len(p) : p[i] \in {"WBPP", "Processing"}

\* the local files a comparison in the last mode takes into a folder, when
\* work-in-progress is decided by the case-sensitive match
IncludedCaseSensitive(f) ==
    {p \in DOMAIN local[R1] :
        /\ (IF Len(p) <= 1 THEN "(root)" ELSE p[1]) = f
        /\ last.mode = "images" => ~HasMarkerInExactCase(p)
        /\ last.mode = "wip" => HasMarkerInExactCase(p)}

\* C28: work-in-progress is a case-sensitive match against "WBPP" and
\* "Processing": a file whose path has a marker only in another letter case
\* (A/wbpp/2) is not work-in-progress, so an IMAGES comparison counts it in
\* its folder and a WIP comparison does not.
C28_WipMatchIsCaseSensitive ==
    CompareReturned =>
      \A f \in {"(root)", "A", "B"} :
        IF IncludedCaseSensitive(f) = {}
        THEN f \notin DOMAIN scan
        ELSE f \in DOMAIN scan
             /\ scan[f].local_files = Cardinality(IncludedCaseSensitive(f))


-----------------------------------------------------------------------------
(* Queue order *)

\* C27: the worker takes the items in queue order, one per step: its step
\* for item i first emits queue_position(target_i, target_{i+1} or "(none)"),
\* runs the action, and emits item_finished(target_i) before it moves to
\* item i+1; every signal of the step belongs to item i, and the share and
\* the local trees change in the worker's steps only, so that the action of
\* item i+1 comes after item_finished of item i.
C27_QueueIsSequential ==
    [][/\ Len(signals') > Len(signals) =>
             /\ worker.kind = "queue"
             /\ IF worker.index <= Len(worker.queue_entries)
                THEN LET entry == worker.queue_entries[worker.index]
                     IN  /\ Emitted[1].name = "queue_position"
                         /\ Emitted[1].target = entry.target
                         /\ Emitted[1].next_target =
                               IF worker.index < Len(worker.queue_entries)
                               THEN worker.queue_entries[worker.index + 1].target
                               ELSE "(none)"
                         /\ CountSignals(Emitted, "queue_position") = 1
                         /\ \/ /\ Len(Emitted) = 2
                               /\ Emitted[2].name = "item_finished"
                               /\ Emitted[2].target = entry.target
                               /\ worker' = [worker EXCEPT !.index = worker.index + 1]
                            \/ /\ CountSignals(Emitted, "item_finished") = 0
                               /\ worker'.kind = "done"
                ELSE /\ Len(Emitted) = 1
                     /\ Emitted[1].name = "finished"
       /\ Len(signals') <= Len(signals) =>
             /\ worker' = worker
             /\ nas' = nas /\ nasDb' = nasDb /\ local' = local]_vars

\* the worker has run a queue of two items before the window handled any
\* signal: position and item_finished of the first, then of the second
C27_Witness ==
    /\ Len(signals) >= 4
    /\ Len(worker.queue_entries) = 2
    /\ signals[1].name = "queue_position"
    /\ signals[1].target = worker.queue_entries[1].target
    /\ signals[1].next_target = worker.queue_entries[2].target
    /\ signals[2].name = "item_finished"
    /\ signals[2].target = worker.queue_entries[1].target
    /\ signals[3].name = "queue_position"
    /\ signals[3].target = worker.queue_entries[2].target
    /\ signals[3].next_target = "(none)"
    /\ signals[4].name = "item_finished"
    /\ signals[4].target = worker.queue_entries[2].target


-----------------------------------------------------------------------------
(* Progress reports *)

\* C29: a pull, push or trash-delete that returns has called the progress
\* callback once per file it processed (copied, skipped or errored), with
\* processed_count 1, 2, ..., n in that order and total_count the total of
\* the result throughout; processed_count never exceeds total_count and the
\* last call has processed_count = total_count, also in a pull with flats.
C29_ProgressCountsUp ==
    (last.op \in {"pull", "push", "delete"} /\ ~last.raised) =>
        /\ Len(last.progress) = last.copied + last.skipped + last.errors
        /\ Len(last.progress) = last.total
        /\ \A i \in 1..Len(last.progress) :
              /\ last.progress[i].processed = i
              /\ last.progress[i].total = last.total
              /\ last.progress[i].processed <= last.progress[i].total

\* a pull with flats reported a file of the primary tree and then a file of
\* the flats tree
C29_Witness ==
    /\ last.op = "pull" /\ last.flats
    /\ last.lights.copied + last.lights.skipped + last.lights.errors = 1
    /\ last.flatsCounts.copied + last.flatsCounts.skipped + last.flatsCounts.errors = 1
    /\ Len(last.progress) = 2
    /\ last.progress[2].processed = 2


-----------------------------------------------------------------------------
(* Trash-delete: emptied directories *)

\* nothing is left in the remote directory d after the step: no file, and
\* no sub-directory that the delete did not remove
LeftEmpty(d) ==
    /\ \A p \in DOMAIN nas' : ~IsPrefix(d, p)
    /\ \A e \in DirsOf(nas) : IsPrefix(d, e) => e \in last'.removedDirs

\* a file was moved out of d or of a directory below it
EmptiedByMoves(d) == \E q \in last'.copiedSet : IsPrefix(d, q)

\* no file of the local tree lies under the local counterpart of d
NoLocalCounterpart(d) == \A p \in DOMAIN local[R1] : ~IsPrefix(d, p)

\* C25: after the moves of a trash-delete, every remote directory of the
\* target that the moves left empty, that has no local counterpart and
\* whose rmdir goes through is removed, children before parents, so that a
\* parent emptied by the removal of its child is removed too; a directory
\* that is not empty, or that exists locally, or that lies outside the
\* target is never removed.
C25_EmptiedDirsAreRemoved ==
    [][DeleteReturned =>
          /\ \A d \in last'.removedDirs :
                /\ d \in DirsOf(nas)
                /\ d[1] = last'.target
                /\ EmptiedByMoves(d)
                /\ LeftEmpty(d)
                /\ NoLocalCounterpart(d)
          /\ \A d \in DirsOf(nas) :
                (/\ d[1] = last'.target
                 /\ EmptiedByMoves(d)
                 /\ LeftEmpty(d)
                 /\ NoLocalCounterpart(d)
                 /\ d \notin last'.rmdirFails) => d \in last'.removedDirs]_vars

\* a delete for A moved the only file below A/L and removed A/L, and then A,
\* which held nothing else; another target's folder is still there
C25_Witness ==
    /\ last.op = "delete" /\ ~last.raised
    /\ last.target = "A"
    /\ last.removedDirs = {<<"A", "L">>, <<"A">>}
    /\ b1 \in DOMAIN nas

\* a worker that has been started and has not yet emitted its last signal
UnitActive == worker.kind \in UnitKinds

\* a step in which the user clicks one of the four start buttons
StartRequest == last'.n = last.n + 1

\* a step that puts a new worker in self.worker
UnitStarts == worker' # worker /\ worker'.kind \in UnitKinds /\ last'.n = last.n + 1

\* C21: in every interleaving of clicks on Run Comparison, Refresh File
\* Status, Rebuild NAS DB and Start Queue with the workers' finished and
\* failed signals, at most one unit is active: a unit starts only when no
\* earlier worker is still running, and a click made while a worker runs
\* changes neither the window, the worker, the signals nor the share.
C21_AtMostOneUnitActive ==
    [][/\ UnitStarts => ~UnitActive
       /\ StartRequest /\ UnitActive =>
            UNCHANGED <<gui, worker, signals, nas, nasDb, local, state>>]_vars

\* the user clicked while the queue worker was between two items, with a
\* signal of the first item still unhandled, and the worker is still there
C21_Witness ==
    /\ last.op = "click_disabled"
    /\ worker.kind = "queue"
    /\ worker.index = 2
    /\ signals # <<>>

\* machine m uploads its working copy in this step
Publishes(m) == writers[m].phase = "fetched" /\ writers'[m].phase = "idle"

\* C30: two machines running download, change, upload on the remote index
\* concurrently can lose an update.  An upload made from a working copy
\* that no other upload has outdated loses nothing: every entry of the
\* remote index stays unless the uploader's delete removed it, and the
\* uploader's upserts are in.  An update is therefore lost only to a later
\* upload of a copy fetched before it, and C30_Witness is such a state.
C30_FreshUploadLosesNothing ==
    [][\A m \in Roots :
         Publishes(m) /\ ~writers[m].stale /\ nasDb.exists =>
            /\ \A p \in DOMAIN nasDb.rows :
                  \/ p \in DOMAIN nasDb'.rows
                  \/ writers[m].op = "delete" /\ p \in writers[m].entries
            /\ writers[m].op = "push" => writers[m].entries \subseteq DOMAIN nasDb'.rows
            /\ writers[m].op = "delete" =>
                  writers[m].entries \cap DOMAIN nasDb'.rows = {}]_vars

\* both machines have completed a push, no delete has run, and a file one
\* of the pushes copied is on the share without an entry in the remote index
C30_Witness ==
    /\ \A m \in Roots : writers[m].phase = "idle" /\ writers[m].removed = {}
                        /\ writers[m].pushed # {}
    /\ nasDb.exists
    /\ \E m \in Roots : \E p \in writers[m].pushed :
          p \in DOMAIN nas /\ p \notin DOMAIN nasDb.rows

\* C31: the command-line copy deletes a local source file only if
\* delete_source is set, no directory-creation, copy or index-update error
\* occurred in the run, the file's path matches no never-delete pattern,
\* and the run found the file identical on the share or copied it fully.
C31_CliDeletesOnlyBackedUpFiles ==
    last.op = "cli_copy" =>
        \A p \in last.deleted :
            /\ last.delete_source
            /\ ~last.errors_detected
            /\ ~last.raised
            /\ ~NeverDelete(p)
            /\ p \in last.identical \cup last.copiedSet
            /\ p \in DOMAIN nas /\ SameSizeMtime(nas[p], File(1, 1))
            /\ p \notin DOMAIN local[R1]

\* a run that deleted a copied file and an identical one, and kept a file
\* under a never-delete directory
C31_Witness ==
    /\ last.op = "cli_copy"
    /\ last.deleted \cap last.copiedSet # {}
    /\ last.deleted \cap last.identical # {}
    /\ \E p \in DOMAIN local[R1] : NeverDelete(p) /\ p \in last.copiedSet

\* C32: with no concurrent changes, the scan that follows a push of target
\* T that completed without an errored file reports local_only_files = 0
\* for T, whatever the remote index held before the push.
C32_PushedTargetHasNoLocalOnly ==
    (/\ last.op = "scan"
     /\ last.prevOp = "push"
     /\ last.prevErrors = 0
     /\ last.prevTarget \in DOMAIN scan)
        => scan[last.prevTarget].local_only_files = 0

\* every file at its place under the target on the share has a row in the
\* remote index
IndexCoversTarget(tree, db, target) ==
    db.exists /\ \A p \in DOMAIN tree : p[1] = target => p \in DOMAIN db.rows

\* C33: a trash-delete run keeps the remote index in agreement with the
\* remote tree for the target: when every file under the target had an
\* index row before the run, every file still at its original location has
\* one after it, also when some moves failed.
C33_DeleteKeepsIndexInAgreement ==
    [][(DeleteReturned /\ IndexCoversTarget(nas, nasDb, last'.target))
          => IndexCoversTarget(nas', nasDb', last'.target)]_vars

\* the last scan recommends nothing for any target
Settled ==
    last.op = "scan" /\ \A t \in DOMAIN scan : recommended_action(scan[t]) = "No action"

\* C34: with no I/O failure and no external change, from a state where the
\* remote index agrees with the remote tree, scanning and executing the
\* recommended action again and again reaches "No action" for the target
\* after finitely many steps and stays there.
C34_LoopReachesNoAction == <>[]Settled

\* C35: after the finished signal of a queue run has been handled, no queue
\* entry has status "Running": every entry is "Queued", "Done" or "Done with
\* errors", also when an item failed outright.
C35_NoEntryRunningAfterFinished ==
    [][FinishedHandled =>
          \A i \in 1..Len(gui'.queue_entries) :
             gui'.queue_entries[i].status \in {"Queued", "Done", "Done with errors"}]_vars

\* the local paths of R1 the step created, removed or rewrote
LocalChanged ==
    {p \in (DOMAIN local[R1]) \cup (DOMAIN local'[R1]) :
        \/ (p \in DOMAIN local[R1]) # (p \in DOMAIN local'[R1])
        \/ p \in DOMAIN local[R1] /\ p \in DOMAIN local'[R1] /\ local[R1][p] # local'[R1][p]}

\* the target's folder and, when flats are requested, the local flats area
InPullFrame(p, target, include_flats) ==
    p[1] = target \/ (include_flats /\ p[1] = FlatsArea)

\* C36 as stated: pull_target_from_nas leaves the share and its index
\* unchanged and changes no local file outside the target's folder and, when
\* flats are requested, the local flats area.
C36_PullChangesOnlyTargetAndFlats ==
    [][PullReturned =>
          /\ nas' = nas
          /\ nasDb' = nasDb
          /\ local'[R2] = local[R2]
          /\ \A p \in LocalChanged : InPullFrame(p, last'.target, last'.flats)]_vars

\* C36 amended: pull_target_from_nas leaves the share and its index unchanged
\* and changes no local file outside the target's folder, the local flats
\* area when flats are requested, and the run's own skip log below
\* .ap-image-backup/logs.
C36_PullChangesOnlyTargetFlatsAndLog ==
    [][PullReturned =>
          /\ nas' = nas
          /\ nasDb' = nasDb
          /\ local'[R2] = local[R2]
          /\ \A p \in LocalChanged :
                \/ InPullFrame(p, last'.target, last'.flats)
                \/ p = SkipLogPath(last'.target)]_vars

\* a pull with flats has copied a file of the target and a flat while the
\* local root holds a file of another target and the share has its index
C36_Witness ==
    /\ last.op = "pull"
    /\ last.flats
    /\ \E p \in last.copiedSet : p[1] = last.target
    /\ \E p \in last.copiedSet : p[1] = FlatsArea
    /\ \E p \in DOMAIN local[R1] : p[1] \in Targets \ {last.target}
    /\ SkipLogPath(last.target) \in DOMAIN local[R1]
    /\ nasDb.exists /\ nasDb.rows # <<>>

\* at most one entry per target
OneEntryPerTarget(entries) ==
    \A i, j \in 1..Len(entries) : entries[i].target = entries[j].target => i = j

\* a call of one of the four slots that edit or start the queue
AddCalled == \E t \in Targets, f \in BOOLEAN, a \in EditActions : CallAddTargetToQueue(t, f, a)

EditCalled ==
    \/ AddCalled
    \/ \E i \in 0..Cardinality(Targets) : CallRemoveSelectedQueueItem(i)
    \/ CallClearQueue
    \/ CallStartQueue

\* the entries differ at most in the action and include_flats of the entry
\* for the target: same length, same order, every other field as before
ReplacedInPlace(before, after, target) ==
    /\ Len(after) = Len(before)
    /\ \A i \in 1..Len(before) :
          IF before[i].target = target
          THEN [after[i] EXCEPT !.action = before[i].action,
                                !.include_flats = before[i].include_flats] = before[i]
          ELSE after[i] = before[i]

\* C37: the queue holds at most one entry per target; adding a target that
\* is already queued replaces that entry's action and include_flats in place
\* without changing its position or the queue length; and while a queue run
\* is active, add, remove, clear and start leave the queue unchanged.
C37_QueueHoldsOneEntryPerTarget ==
    [][/\ OneEntryPerTarget(gui'.queue_entries)
       /\ \A t \in Targets, f \in BOOLEAN, a \in EditActions :
             (CallAddTargetToQueue(t, f, a) /\ IsQueued(t) /\ ~gui.queue_running) =>
                /\ ReplacedInPlace(gui.queue_entries, gui'.queue_entries, t)
                /\ \E i \in 1..Len(gui'.queue_entries) :
                      /\ gui'.queue_entries[i].target = t
                      /\ gui'.queue_entries[i].action = a
                      /\ gui'.queue_entries[i].include_flats = f
       /\ (EditCalled /\ gui.queue_running) =>
             gui'.queue_entries = gui.queue_entries]_vars

\* after a run has ended, the second entry of a queue of two, still showing
\* the run's status, was added again with another action and with flats
C37_Witness ==
    /\ last.op = "add_target_to_queue"
    /\ last.gated
    /\ ~gui.queue_running
    /\ Len(gui.queue_entries) = Cardinality(Targets)
    /\ gui.queue_entries[Len(gui.queue_entries)].target = last.target
    /\ gui.queue_entries[Len(gui.queue_entries)].status = "Done"
    /\ gui.queue_entries[Len(gui.queue_entries)].action = "push"
    /\ gui.queue_entries[Len(gui.queue_entries)].include_flats
    /\ gui.queue_entries[1].action = "pull"

\* add_target_to_queue was called while a run was active
C37_WitnessRunning ==
    /\ last.op = "add_target_to_queue"
    /\ gui.queue_running
    /\ ~last.gated
    /\ gui.queue_entries # <<>>

=============================================================================
